---- MODULE Spec2Model ----
(***************************************************************************)
(* The retrieval and query-routing engine of laptop-spec-rag:              *)
(*   src/src/query_analyzer.py  QueryFilter, ProductNameExtractor          *)
(*   src/src/data_loader.py     ConvertSpec                                *)
(*   src/src/retriever.py       ChunkRetriever, QARetriever                *)
(*   src/src/rag_engine.py      RAGSystem._process_query                   *)
(*                                                                         *)
(* Text is a sequence of characters, one one-character string per          *)
(* character; a character outside ASCII is written by its code point       *)
(* ("U+7522").  An optional value (Python's None or a value) is a sequence *)
(* of length 0 or 1.  A score is an integer number of thousandths.         *)
(***************************************************************************)
EXTENDS Integers, Sequences, FiniteSets, TLC

VARIABLES
    spec_file,        \* the "products" list of the corpus file on disk
    source_exists,    \* whether the corpus file can be opened
    chunks,           \* RAGSystem.chunks, the same list object as ChunkRetriever.chunks
    vectors,          \* ChunkRetriever.vectors: the direction of each chunk's unit vector
    known_models,     \* ProductNameExtractor.known_models
    qa_items,         \* QARetriever.qa_items
    qa_vectors,       \* QARetriever.vectors
    RETRIEVAL_TOP_K,  \* config.RETRIEVAL_TOP_K
    argsort_stable,   \* whether this build's np.argsort keeps equal keys in index order
    last,             \* the last completed call: its inputs and what it returned
    answers,          \* the outcomes of _process_query that callers have received
    threads,          \* the calls of _process_query in progress, one per thread
    session           \* main(): where it is, the input left, what it has done

vars == <<spec_file, source_exists, chunks, vectors, known_models, qa_items, qa_vectors,
          RETRIEVAL_TOP_K, argsort_stable, last, answers, threads, session>>

-----------------------------------------------------------------------------
(* Optional values and small helpers.                                      *)

\* no main() is running
NoSession == [pc |-> "none"]

None == <<>>

Some(x) == <<x>>

Min(S) == CHOOSE x \in S : \A y \in S : x <= y

Max(S) == CHOOSE x \in S : \A y \in S : x >= y

Range(s) == {s[i] : i \in 1..Len(s)}

\* a list comprehension, [e(i) | i in 1..n], as a sequence whose elements are
\* computed once
List(f) == f \o <<>>

Take(s, n) == SubSeq(s, 1, IF n < Len(s) THEN n ELSE Len(s))

Reverse(s) == List([i \in 1..Len(s) |-> s[Len(s) + 1 - i]])

RECURSIVE Concat(_)
Concat(ss) == IF ss = <<>> THEN <<>> ELSE Head(ss) \o Concat(Tail(ss))

-----------------------------------------------------------------------------
(* Python str: lower, upper, "in", split, join, replace.                   *)

ToLower ==
    [c \in {"A","B","C","D","E","F","G","H","I","J","K","L","M",
            "N","O","P","Q","R","S","T","U","V","W","X","Y","Z"} |->
       CASE c = "A" -> "a" [] c = "B" -> "b" [] c = "C" -> "c" [] c = "D" -> "d"
         [] c = "E" -> "e" [] c = "F" -> "f" [] c = "G" -> "g" [] c = "H" -> "h"
         [] c = "I" -> "i" [] c = "J" -> "j" [] c = "K" -> "k" [] c = "L" -> "l"
         [] c = "M" -> "m" [] c = "N" -> "n" [] c = "O" -> "o" [] c = "P" -> "p"
         [] c = "Q" -> "q" [] c = "R" -> "r" [] c = "S" -> "s" [] c = "T" -> "t"
         [] c = "U" -> "u" [] c = "V" -> "v" [] c = "W" -> "w" [] c = "X" -> "x"
         [] c = "Y" -> "y" [] c = "Z" -> "z"]

ToUpper ==
    [c \in {ToLower[u] : u \in DOMAIN ToLower} |->
       CHOOSE u \in DOMAIN ToLower : ToLower[u] = c]

lower(s) ==
    List([i \in 1..Len(s) |-> IF s[i] \in DOMAIN ToLower THEN ToLower[s[i]] ELSE s[i]])

upper(s) ==
    List([i \in 1..Len(s) |-> IF s[i] \in DOMAIN ToUpper THEN ToUpper[s[i]] ELSE s[i]])

\* t in s: t occurs in s as a run of consecutive characters
Contains(s, t) ==
    \E i \in 0..(Len(s) - Len(t)) : \A k \in 1..Len(t) : s[i + k] = t[k]

WHITESPACE == {" ", "\n", "\t"}

\* set(s.split()): the maximal runs of characters that are not whitespace
Tokens(s) ==
    LET starts == {i \in 1..Len(s) :
                     s[i] \notin WHITESPACE /\ (i = 1 \/ s[i - 1] \in WHITESPACE)}
        stop(i) == Min({j \in i..Len(s) : j = Len(s) \/ s[j + 1] \in WHITESPACE})
    IN  {SubSeq(s, i, stop(i)) : i \in starts}

\* s.split("-")[-1]
LastSegment(s) ==
    LET dashes == {i \in 1..Len(s) : s[i] = "-"}
    IN  IF dashes = {} THEN s ELSE SubSeq(s, Max(dashes) + 1, Len(s))

\* sep.join(parts)
RECURSIVE Join(_, _)
Join(parts, sep) ==
    IF parts = <<>> THEN <<>>
    ELSE IF Len(parts) = 1 THEN parts[1]
    ELSE parts[1] \o sep \o Join(Tail(parts), sep)

\* s.replace("\n", " ")
ReplaceNewlines(s) == List([i \in 1..Len(s) |-> IF s[i] = "\n" THEN " " ELSE s[i]])

-----------------------------------------------------------------------------
(* QueryFilter (src/src/query_analyzer.py).                                *)

PRODUCT_LIST_KEYWORDS == <<
    <<"U+6709", "U+54EA", "U+4E9B", "U+7522", "U+54C1">>,
    <<"U+751A", "U+9EBC", "U+7522", "U+54C1">>,
    <<"U+4EC0", "U+9EBC", "U+7522", "U+54C1">>,
    <<"w", "h", "a", "t", " ", "p", "r", "o", "d", "u", "c", "t", "s">>,
    <<"l", "i", "s", "t", " ", "p", "r", "o", "d", "u", "c", "t", "s">>,
    <<"a", "v", "a", "i", "l", "a", "b", "l", "e", " ", "m", "o", "d", "e", "l", "s">>,
    <<"U+6240", "U+6709", "U+7522", "U+54C1">>,
    <<"a", "l", "l", " ", "p", "r", "o", "d", "u", "c", "t", "s">>,
    <<"U+6709", "U+54EA", "U+5E7E", "U+53F0">>,
    <<"U+6709", "U+54EA", "U+5E7E", "U+6B3E">> >>

COMPARISON_KEYWORDS == <<
    <<"U+6BD4", "U+8F03">>,
    <<"U+5DEE", "U+7570">>,
    <<"U+5DEE", "U+5225">>,
    <<"U+4E0D", "U+540C">>,
    <<"c", "o", "m", "p", "a", "r", "e">>,
    <<"c", "o", "m", "p", "a", "r", "i", "s", "o", "n">>,
    <<"d", "i", "f", "f", "e", "r", "e", "n", "c", "e">>,
    <<"v", "s">>,
    <<"v", "e", "r", "s", "u", "s">>,
    <<"U+7522", "U+54C1">> >>

\* the loop of the is_..._query methods: some keyword, lower-cased, is in the
\* lower-cased query
AnyKeywordIn(keywords, query) ==
    LET query_lower == lower(query)
    IN  \E k \in 1..Len(keywords) : Contains(query_lower, lower(keywords[k]))

is_product_list_query(query) == AnyKeywordIn(PRODUCT_LIST_KEYWORDS, query)

is_comparison_query(query) == AnyKeywordIn(COMPARISON_KEYWORDS, query)

-----------------------------------------------------------------------------
(* ProductNameExtractor (src/src/query_analyzer.py).                       *)

fallback_suffixes == <<<<"B", "X", "H">>, <<"B", "Y", "H">>, <<"B", "Z", "H">>>>

\* __init__: known_models is the (product_id, product_name) pairs of the list
ProductNameExtractor(product_list) ==
    List([i \in 1..Len(product_list) |->
        <<product_list[i].product_id, product_list[i].product_name>>])

\* an extractor that returns the last matching product of the catalog
extract_last_match(models, query) ==
    LET query_upper == upper(query)
        hits == {i \in 1..Len(models) :
                    Contains(query_upper, upper(LastSegment(models[i][1])))}
        fallback == {i \in 1..Len(fallback_suffixes) :
                        Contains(query_upper, fallback_suffixes[i])}
    IN  IF hits # {} THEN Some(models[Max(hits)][1])
        ELSE IF models = <<>> /\ fallback # {} THEN Some(fallback_suffixes[Min(fallback)])
        ELSE None

\* extract: the first known model whose upper-cased last id segment is in the
\* upper-cased query; the hard-coded suffixes exist only if known_models is empty
extract(models, query) ==
    LET query_upper == upper(query)
        hits == {i \in 1..Len(models) :
                    Contains(query_upper, upper(LastSegment(models[i][1])))}
        fallback == {i \in 1..Len(fallback_suffixes) :
                        Contains(query_upper, fallback_suffixes[i])}
    IN  IF hits # {} THEN Some(models[Min(hits)][1])
        ELSE IF models = <<>> /\ fallback # {} THEN Some(fallback_suffixes[Min(fallback)])
        ELSE None

-----------------------------------------------------------------------------
(* ConvertSpec (src/src/data_loader.py).                                   *)

CANONICAL_TO_KEYS == <<
    <<<<"G", "P", "U">>, <<"G", "r", "a", "p", "h", "i", "c", "s">>, <<"g", "a", "m", "i", "n", "g">>, <<"U+986F", "U+5361">>, <<"U+986F", "U+793A", "U+5361">>, <<"U+904A", "U+6232">>>>,
    <<<<"C", "P", "U">>, <<"P", "r", "o", "c", "e", "s", "s", "o", "r">>, <<"U+4E2D", "U+592E", "U+8655", "U+7406", "U+5668">>, <<"U+8655", "U+7406", "U+5668">>>>,
    <<<<"R", "A", "M">>, <<"M", "e", "m", "o", "r", "y">>, <<"U+8A18", "U+61B6", "U+9AD4">>>>,
    <<<<"S", "S", "D">>, <<"S", "t", "o", "r", "a", "g", "e">>, <<"U+5132", "U+5B58", "U+88DD", "U+7F6E">>, <<"U+786C", "U+789F">>>>,
    <<<<"S", "c", "r", "e", "e", "n">>, <<"D", "i", "s", "p", "l", "a", "y">>, <<"H", "D", "M", "I">>, <<"D", "P">>, <<"U+986F", "U+793A", "U+5668">>, <<"U+87A2", "U+5E55">>>>,
    <<<<"B", "a", "t", "t", "e", "r", "y">>, <<"U+96FB", "U+6C60">>>>,
    <<<<"P", "o", "r", "t", "s">>, <<"C", "o", "n", "n", "e", "c", "t", "i", "v", "i", "t", "y">>, <<"U+9023", "U+63A5", "U+57E0">>, <<"I", "/", "O">>, <<"U", "S", "B">>, <<"T", "h", "u", "n", "d", "e", "r", "b", "o", "l", "t">>, <<"H", "D", "M", "I">>>>,
    <<<<"W", "i", "r", "e", "l", "e", "s", "s">>, <<"N", "e", "t", "w", "o", "r", "k", "i", "n", "g">>, <<"U+901A", "U+8A0A">>, <<"W", "i", "F", "i">>>>,
    <<<<"A", "u", "d", "i", "o">>, <<"S", "p", "e", "a", "k", "e", "r", "s">>, <<"U+97F3", "U+6548">>, <<"U+5587", "U+53ED">>>>,
    <<<<"D", "i", "m", "e", "n", "s", "i", "o", "n", "s">>, <<"P", "h", "y", "s", "i", "c", "a", "l">>, <<"U+5C3A", "U+5BF8">>>>,
    <<<<"W", "e", "i", "g", "h", "t">>, <<"P", "h", "y", "s", "i", "c", "a", "l">>, <<"U+91CD", "U+91CF">>>> >>

FULL_SPECS == <<"F", "u", "l", "l", " ", "S", "p", "e", "c", "s">>

OVERALL_SPECIFICATION == <<"O", "v", "e", "r", "a", "l", "l", " ", "S", "p", "e", "c", "i", "f", "i", "c", "a", "t", "i", "o", "n">>

RELATED_TERMS ==
    <<"R", "e", "l", "a", "t", "e", "d", " ", "t", "e", "r", "m", "s", ":", " ", "s", "p", "e", "c", "i", "f", "i", "c", "a", "t", "i", "o", "n", "s", ",", " ", "f", "u", "l", "l", " ", "s", "p", "e", "c", "s", ",", " ", "c", "o", "n", "f", "i", "g", "u", "r", "a", "t", "i", "o", "n", ",", " ", "c", "o", "m", "p", "u", "t", "e", "r", ",", " ", "l", "a", "p", "t", "o", "p", ",", " ", "o", "v", "e", "r", "a", "l", "l", ",", " ", "U+898F", "U+683C", ",", " ", "U+6574", "U+6A5F", "U+898F", "U+683C", ",", " ", "U+914D", "U+7F6E", ",", " ", "U+7B46", "U+96FB", ",", " ", "U+96FB", "U+8166">>

\* _get_related_words: the keywords of the first row one of whose keywords,
\* lower-cased, occurs in the lower-cased category or key; else the empty string
get_related_words(category, key) ==
    LET search_terms == <<lower(category), lower(key)>>
        hit(r) == \E k \in 1..Len(CANONICAL_TO_KEYS[r]) : \E t \in 1..2 :
                     Contains(search_terms[t], lower(CANONICAL_TO_KEYS[r][k]))
        rows == {r \in 1..Len(CANONICAL_TO_KEYS) : hit(r)}
    IN  IF rows = {} THEN <<>>
        ELSE <<"R", "e", "l", "a", "t", "e", "d", " ", "w", "o", "r", "d", "s", ":", " ">> \o Join(CANONICAL_TO_KEYS[Min(rows)], <<"U+3001">>)

\* chunk_data, lines 126-152: the chunk of one spec of a product
SpecChunk(product, spec) ==
    LET related_words == get_related_words(spec.category, spec.key)
        content_parts ==
            << <<"P", "r", "o", "d", "u", "c", "t", ":", " ">> \o product.product_name,
               <<"C", "a", "t", "e", "g", "o", "r", "y", ":", " ">> \o spec.category,
               <<"S", "p", "e", "c", "i", "f", "i", "c", "a", "t", "i", "o", "n", ":", " ">> \o spec.key,
               <<"V", "a", "l", "u", "e", ":", " ">> \o spec.value >>
            \o (IF related_words # <<>> THEN <<related_words>> ELSE <<>>)
    IN  [content  |-> Join(content_parts, <<"\n">>),
         metadata |-> [product_id   |-> product.product_id,
                       product_name |-> product.product_name,
                       category     |-> spec.category,
                       key          |-> spec.key]]

\* chunk_data, lines 154-181: the "Full Machine Specs" chunk of a product
FullSpecsChunk(product) ==
    LET full_specs_content ==
            List([i \in 1..Len(product.specs) |->
                <<"-", " ">> \o product.specs[i].category \o <<" ", "-", " ">> \o product.specs[i].key
                \o <<":", " ">> \o ReplaceNewlines(product.specs[i].value)])
        full_specs_parts ==
            << <<"P", "r", "o", "d", "u", "c", "t", ":", " ">> \o product.product_name,
               <<"C", "a", "t", "e", "g", "o", "r", "y", ":", " ", "O", "v", "e", "r", "a", "l", "l", " ", "S", "p", "e", "c", "i", "f", "i", "c", "a", "t", "i", "o", "n">>,
               <<"S", "p", "e", "c", "i", "f", "i", "c", "a", "t", "i", "o", "n", ":", " ", "F", "u", "l", "l", " ", "S", "p", "e", "c", "s">>,
               <<"V", "a", "l", "u", "e", ":">>,
               Join(full_specs_content, <<"\n">>),
               RELATED_TERMS >>
    IN  [content  |-> Join(full_specs_parts, <<"\n">>),
         metadata |-> [product_id   |-> product.product_id,
                       product_name |-> product.product_name,
                       category     |-> OVERALL_SPECIFICATION,
                       key          |-> FULL_SPECS]]

\* chunk_data: per product, its spec chunks and then its Full Specs chunk
chunk_data(products) ==
    Concat(List([p \in 1..Len(products) |->
              [i \in 1..Len(products[p].specs) |->
                  SpecChunk(products[p], products[p].specs[i])]
              \o <<FullSpecsChunk(products[p])>>]))

\* get_products: reads the file and returns its "products" list
get_products(file) == file

-----------------------------------------------------------------------------
(* EmbeddingEngine and the scores (src/src/retriever.py).                  *)
(* The embedder is an external model: here a text embeds to a unit vector  *)
(* of the plane, named by its direction, a multiple of 30 degrees.  Stored *)
(* vectors and the query vector are normalised by the code, so the dot     *)
(* product of two of them is the cosine of the angle between them.         *)

COSINE == <<1000, 866, 500, 0, -500, -866, -1000>>

DIRECTIONS == {0, 1}

\* np.dot of two unit vectors, in thousandths
Cos(a, b) == COSINE[(IF a >= b THEN a - b ELSE b - a) + 1]

\* the bonus without its cap: overlap * 0.05
keyword_score_uncapped(query_tokens, chunk) ==
    LET content_lower == lower(chunk.content)
    IN  50 * Cardinality({t \in query_tokens : Contains(content_lower, t)})

\* lines 175-178: min(overlap * 0.05, 0.5)
keyword_score(query_tokens, chunk) ==
    LET content_lower == lower(chunk.content)
        overlap == Cardinality({t \in query_tokens : Contains(content_lower, t)})
    IN  IF overlap * 50 < 500 THEN overlap * 50 ELSE 500

\* np.argsort(a): the indices of a in ascending order of value.  Equal values
\* come in index order when the sort is stable and, for the other builds, in
\* the opposite order.
argsort(a) ==
    LET before(j, i) == \/ a[j] < a[i]
                        \/ a[j] = a[i] /\ (IF argsort_stable THEN j < i ELSE j > i)
        pos(i) == 1 + Cardinality({j \in 1..Len(a) : before(j, i)})
    IN  List([k \in 1..Len(a) |-> CHOOSE i \in 1..Len(a) : pos(i) = k])

\* the slice taken before the reversal: np.argsort(scores)[:top_k][::-1]
TopKSliceFirst(scores, top_k) == Reverse(Take(argsort(scores), top_k))

\* line 186 and line 311: np.argsort(scores)[::-1][:top_k]
TopK(scores, top_k) == Take(Reverse(argsort(scores)), top_k)

-----------------------------------------------------------------------------
(* ChunkRetriever.search (src/src/retriever.py, lines 123-191).            *)

\* a search that ignores candidate_chunks
TargetChunksWholeCorpus(candidate_chunks) == chunks

\* a search that takes an empty candidate list for no candidate list
TargetChunksFalsy(candidate_chunks) ==
    IF candidate_chunks # None /\ candidate_chunks[1] # <<>>
    THEN candidate_chunks[1] ELSE chunks

\* line 148
TargetChunks(candidate_chunks) ==
    IF candidate_chunks # None THEN candidate_chunks[1] ELSE chunks

\* lines 152-161: the corpus index of each target chunk that self.chunks.index
\* finds, in target order; a chunk it does not find is skipped
TargetIndices(target_chunks) ==
    LET found == SelectSeq(target_chunks, LAMBDA t : t \in Range(chunks))
    IN  List([j \in 1..Len(found) |->
            Min({i \in 1..Len(chunks) : chunks[i] = found[j]})])

\* lines 172-181: final_scores[i] is the i-th vector score plus the keyword
\* score of target_chunks[i]
FinalScores(target_chunks, target_indices, query_tokens, query_vec) ==
    LET vector_scores == List([j \in 1..Len(target_indices) |->
                             Cos(vectors[target_indices[j]], query_vec)])
    IN  List([i \in 1..Len(vector_scores) |->
            vector_scores[i] + keyword_score(query_tokens, target_chunks[i])])

search(query, query_vec, top_k, candidate_chunks) ==
    LET query_tokens   == Tokens(lower(query))
        target_chunks  == TargetChunks(candidate_chunks)
        target_indices == TargetIndices(target_chunks)
        final_scores   ==
            FinalScores(target_chunks, target_indices, query_tokens, query_vec)
        top_indices    == TopK(final_scores, top_k)
    IN  IF target_chunks = <<>> \/ target_indices = <<>>
        THEN [results |-> <<>>, scores |-> <<>>, embed_calls |-> 1]
        ELSE [results |-> List([i \in 1..Len(top_indices) |-> target_chunks[top_indices[i]]]),
              scores  |-> List([i \in 1..Len(top_indices) |-> final_scores[top_indices[i]]]),
              embed_calls |-> 1]

-----------------------------------------------------------------------------
(* QARetriever.search (src/src/retriever.py, lines 268-315).               *)

OVERALL == <<"o", "v", "e", "r", "a", "l", "l">>

\* a QA search that ranks every item, whatever its product
qa_search_unscoped(query_vec, product_name, top_k) ==
    LET candidate_indices == List([i \in 1..Len(qa_items) |-> i])
        scores == List([j \in 1..Len(candidate_indices) |->
                      Cos(qa_vectors[1][candidate_indices[j]], query_vec)])
        sorted_indices == TopK(scores, top_k)
    IN  IF qa_items = <<>> \/ qa_vectors = None
        THEN [results |-> <<>>, scores |-> <<>>, embed_calls |-> 0]
        ELSE [results |-> List([i \in 1..Len(sorted_indices) |->
                              qa_items[candidate_indices[sorted_indices[i]]]]),
              scores  |-> List([i \in 1..Len(sorted_indices) |-> scores[sorted_indices[i]]]),
              embed_calls |-> 1]

\* a QA search that returns nothing when no item matches the scope
qa_search_no_fallback(query_vec, product_name, top_k) ==
    LET scope == IF product_name = None THEN OVERALL ELSE product_name[1]
        p_name(i) == IF qa_items[i].product_name # <<>>
                     THEN qa_items[i].product_name ELSE OVERALL
        candidate_indices == SelectSeq(List([i \in 1..Len(qa_items) |-> i]),
                        LAMBDA i : upper(p_name(i)) = upper(scope) \/ p_name(i) = OVERALL)
        scores == List([j \in 1..Len(candidate_indices) |->
                      Cos(qa_vectors[1][candidate_indices[j]], query_vec)])
        sorted_indices == TopK(scores, top_k)
    IN  IF qa_items = <<>> \/ qa_vectors = None
        THEN [results |-> <<>>, scores |-> <<>>, embed_calls |-> 0]
        ELSE [results |-> List([i \in 1..Len(sorted_indices) |->
                              qa_items[candidate_indices[sorted_indices[i]]]]),
              scores  |-> List([i \in 1..Len(sorted_indices) |-> scores[sorted_indices[i]]]),
              embed_calls |-> 1]

\* a QA search that embeds the query before it looks at the index
qa_search_embed_first(query_vec, product_name, top_k) ==
    IF qa_items = <<>> \/ qa_vectors = None
    THEN [results |-> <<>>, scores |-> <<>>, embed_calls |-> 1]
    ELSE [results |-> Take(qa_items, top_k),
          scores  |-> Take(List([i \in 1..Len(qa_items) |->
                               Cos(qa_vectors[1][i], query_vec)]), top_k),
          embed_calls |-> 1]

qa_search(query_vec, product_name, top_k) ==
    LET scope == IF product_name = None THEN OVERALL ELSE product_name[1]
        p_name(i) == IF qa_items[i].product_name # <<>>
                     THEN qa_items[i].product_name ELSE OVERALL
        matching == SelectSeq(List([i \in 1..Len(qa_items) |-> i]),
                        LAMBDA i : upper(p_name(i)) = upper(scope) \/ p_name(i) = OVERALL)
        candidate_indices == IF matching # <<>> THEN matching
                             ELSE List([i \in 1..Len(qa_items) |-> i])
        scores == List([j \in 1..Len(candidate_indices) |->
                      Cos(qa_vectors[1][candidate_indices[j]], query_vec)])
        sorted_indices == TopK(scores, top_k)
    IN  IF qa_items = <<>> \/ qa_vectors = None
        THEN [results |-> <<>>, scores |-> <<>>, embed_calls |-> 0]
        ELSE [results |-> List([i \in 1..Len(sorted_indices) |->
                              qa_items[candidate_indices[sorted_indices[i]]]]),
              scores  |-> List([i \in 1..Len(sorted_indices) |-> scores[sorted_indices[i]]]),
              embed_calls |-> 1]

-----------------------------------------------------------------------------
(* RAGSystem._process_query (src/src/rag_engine.py, lines 84-197).         *)

\* the truth value of an optional string: None and "" are false
Truthy(opt) == opt # None /\ opt[1] # <<>>

\* a router that tests the product id before the comparison keywords
RouteProductFirst(is_comparison, extracted_product_id, is_product_list) ==
    IF Truthy(extracted_product_id) THEN "SpecificProduct"
    ELSE IF is_comparison THEN "Comparison"
    ELSE IF is_product_list THEN "ProductList"
    ELSE "General"

\* lines 107-134: which branch of the router runs
Route(is_comparison, extracted_product_id, is_product_list) ==
    IF is_comparison THEN "Comparison"
    ELSE IF Truthy(extracted_product_id) THEN "SpecificProduct"
    ELSE IF is_product_list THEN "ProductList"
    ELSE "General"

\* lines 111-112: every chunk whose key is "Full Specs", each with score 1.0
ComparisonResults ==
    LET chunk_results == SelectSeq(chunks, LAMBDA c : c.metadata.key = FULL_SPECS)
    IN  [results |-> chunk_results,
         scores  |-> List([i \in 1..Len(chunk_results) |-> 1000]),
         embed_calls |-> 0]

\* a product filter that lets every chunk through
ProductChunksAnyProduct(product_id) == chunks

\* line 117
ProductChunks(product_id) ==
    SelectSeq(chunks, LAMBDA c : c.metadata.product_id = product_id)

\* lines 124-127
ProductListFact(all_products) ==
    LET product_names == List([i \in 1..Len(all_products) |-> all_products[i].product_name])
    IN  <<"F", "A", "C", "T", ":", " ", "T", "h", "e", " ", "a", "v", "a", "i", "l", "a", "b", "l", "e", " ", "p", "r", "o", "d", "u", "c", "t", "s", " ", "i", "n", " ", "t", "h", "e", " ", "d", "a", "t", "a", "b", "a", "s", "e", " ", "a", "r", "e", ":", " ">>
        \o Join(product_names, <<",", " ">>) \o <<".">>

\* the policy without its score threshold
IncludeFullSpecsNoThreshold(deterministic_facts, chunk_scores, is_comparison) ==
    IF is_comparison THEN TRUE
    ELSE IF deterministic_facts # <<>> THEN FALSE
    ELSE TRUE

\* lines 137-145
IncludeFullSpecs(deterministic_facts, chunk_scores, is_comparison) ==
    IF is_comparison THEN TRUE
    ELSE IF chunk_scores # <<>> /\ chunk_scores[1] > 1200 THEN FALSE
    ELSE IF deterministic_facts # <<>> THEN FALSE
    ELSE TRUE

\* a loop that keeps every ranked chunk
KeptPositionsAll(chunk_results, include_full_specs) ==
    List([i \in 1..Len(chunk_results) |-> i])

\* a loop that puts each chunk it keeps in front of those kept before
KeptPositionsNewestFirst(chunk_results, include_full_specs) ==
    Reverse(SelectSeq(List([i \in 1..Len(chunk_results) |-> i]),
        LAMBDA i : include_full_specs \/ chunk_results[i].metadata.key # FULL_SPECS))

\* lines 150-152: the positions of the ranked list that the loop keeps
KeptPositions(chunk_results, include_full_specs) ==
    SelectSeq(List([i \in 1..Len(chunk_results) |-> i]),
        LAMBDA i : include_full_specs \/ chunk_results[i].metadata.key # FULL_SPECS)

\* a loop that records a chunk before it tests include_full_specs
RecordedPositionsAll(chunk_results, include_full_specs) ==
    List([i \in 1..Len(chunk_results) |-> i])

\* lines 150-161: the positions whose chunk gets an entry in retrieval_metadata
RecordedPositions(chunk_results, include_full_specs) ==
    KeptPositions(chunk_results, include_full_specs)

\* "{s:.2f}": the score rounded to hundredths (the result is in hundredths)
Format2f(s) == (s + 5) \div 10

\* a scope that is "overall" whatever was extracted
QAProductSuffixOverall(extracted_product_id) == OVERALL

\* line 171
QAProductSuffix(extracted_product_id) ==
    IF Truthy(extracted_product_id)
    THEN upper(LastSegment(extracted_product_id[1])) ELSE OVERALL

\* lines 180-185: the content of a QA item's evidence entry
QAContent(qa) == <<"Q", ":", " ">> \o qa.question \o <<"\n", "A", ":", " ">> \o qa.answer

\* lines 137-197: the Full Specs policy, the context and the evidence, from the
\* ranked chunks and the QA pairs
build_context(user_question, query_vec, extracted_product_id, is_comparison, mode, candidates, deterministic_facts, ranked, qa) ==
    LET include_full_specs ==
            IncludeFullSpecs(deterministic_facts, ranked.scores, is_comparison)
        kept == KeptPositions(ranked.results, include_full_specs)
        recorded == RecordedPositions(ranked.results, include_full_specs)
        final_chunk_results == List([i \in 1..Len(kept) |-> ranked.results[kept[i]]])
        final_chunk_scores  == List([i \in 1..Len(kept) |-> ranked.scores[kept[i]]])
        retrieval_metadata ==
            List([i \in 1..Len(recorded) |->
                [type    |-> "chunk",
                 content |-> ranked.results[recorded[i]].content,
                 score   |-> ranked.scores[recorded[i]]]])
            \o List([i \in 1..Len(qa.results) |->
                [type    |-> "qa",
                 content |-> QAContent(qa.results[i]),
                 score   |-> qa.scores[i]]])
        context ==
            [verified_facts    |-> deterministic_facts,
             retrieval_results |->
                List([i \in 1..Len(final_chunk_results) |->
                    [content   |-> final_chunk_results[i].content,
                     score_2f  |-> Format2f(final_chunk_scores[i])]]),
             qa_database       |->
                List([i \in 1..Len(qa.results) |->
                    [content   |-> QAContent(qa.results[i]),
                     score_2f  |-> Format2f(qa.scores[i])]])]
    IN  [op          |-> "process",
         query       |-> user_question,
         query_vec   |-> query_vec,
         extracted   |-> extracted_product_id,
         mode        |-> mode,
         candidates  |-> candidates,
         ranked      |-> ranked,
         chunk_results |-> final_chunk_results,
         chunk_scores  |-> final_chunk_scores,
         qa_scope    |-> QAProductSuffix(extracted_product_id),
         qa_top_k    |-> 1,
         chunk_embed_calls |-> ranked.embed_calls,
         qa_embed_calls    |-> qa.embed_calls,
         context     |-> context,
         evidence    |-> retrieval_metadata]

\* lines 107-173: the chunks of the mode, then the QA pairs
retrieve(user_question, query_vec, extracted_product_id, is_comparison, mode) ==
    LET top_k == RETRIEVAL_TOP_K
        candidates ==
            IF mode = "Comparison" THEN None
            ELSE IF mode = "SpecificProduct"
                 THEN Some(ProductChunks(extracted_product_id[1]))
            ELSE Some(chunks)
        deterministic_facts ==
            IF mode = "ProductList"
            THEN <<ProductListFact(get_products(spec_file))>> ELSE <<>>
        ranked ==
            IF mode = "Comparison" THEN ComparisonResults
            ELSE search(user_question, query_vec, top_k, candidates)
        qa_product_suffix == QAProductSuffix(extracted_product_id)
        qa == qa_search(query_vec, Some(qa_product_suffix), 1)
    IN  build_context(user_question, query_vec, extracted_product_id, is_comparison,
                      mode, candidates, deterministic_facts, ranked, qa)

process_query(user_question, query_vec) ==
    LET extracted_product_id == extract(known_models, user_question)
        is_comparison == is_comparison_query(user_question)
        mode == Route(is_comparison, extracted_product_id,
                      is_product_list_query(user_question))
    IN  retrieve(user_question, query_vec, extracted_product_id, is_comparison, mode)
-----------------------------------------------------------------------------
(* The inputs of the model: corpus files, QA files, queries.               *)

BXH == [product_id   |-> <<"a", "m", "-", "1", "6", "-", "b", "x", "h">>,
        product_name |-> <<"A", "M", " ", "1", "6", " ", "B", "X", "H">>,
        specs        |-> << [category |-> <<"P", "r", "o", "c", "e", "s", "s", "o", "r">>, key |-> <<"C", "P", "U">>, value |-> <<"i", "9">>] >>]

BYH == [product_id   |-> <<"a", "m", "-", "1", "6", "-", "b", "y", "h">>,
        product_name |-> <<"A", "M", " ", "1", "6", " ", "B", "Y", "H">>,
        specs        |-> << [category |-> <<"M", "e", "m", "o", "r", "y">>, key |-> <<"R", "A", "M">>, value |-> <<"3", "2", "G", "B">>] >>]

\* a product whose source had a category named "Full Specs", which build_kb.py
\* (lines 69-74) copies into both the category and the key of the spec
BZH == [product_id   |-> <<"a", "m", "-", "1", "6", "-", "b", "z", "h">>,
        product_name |-> <<"A", "M", " ", "1", "6", " ", "B", "Z", "H">>,
        specs        |-> << [category |-> <<"F", "u", "l", "l", " ", "S", "p", "e", "c", "s">>, key |-> <<"F", "u", "l", "l", " ", "S", "p", "e", "c", "s">>, value |-> <<"s", "e", "e", " ", "s", "h", "e", "e", "t">>] >>]

CorpusFiles == { <<BXH>>, <<BXH, BYH>>, <<BZH>> }

QAFiles == {
    <<>>,
    << [question |-> <<"b", "a", "t", "t", "e", "r", "y", " ", "l", "i", "f", "e", "?">>, answer |-> <<"1", "0", " ", "h", "o", "u", "r", "s">>, product_name |-> <<"o", "v", "e", "r", "a", "l", "l">>] >>,
    << [question |-> <<"c", "p", "u", "?">>, answer |-> <<"i", "9">>, product_name |-> <<"B", "X", "H">>],
       [question |-> <<"r", "a", "m", "?">>, answer |-> <<"3", "2", "G", "B">>, product_name |-> <<"B", "Y", "H">>] >> }

TopKValues == {1, 3, 5}

Queries == {
    <<"c", "o", "m", "p", "a", "r", "e", " ", "b", "x", "h", " ", "a", "n", "d", " ", "b", "y", "h">>,
    <<"b", "x", "h", " ", "c", "p", "u", " ", "i", "9", " ", "a", " ", "c">>,
    <<"b", "y", "h", " ", "r", "a", "m">>,
    <<"l", "i", "s", "t", " ", "p", "r", "o", "d", "u", "c", "t", "s">>,
    <<"l", "i", "s", "t", " ", "p", "r", "o", "d", "u", "c", "t", "s", " ", "a", " ", "c", " ", "p", " ", "u", " ", "i">>,
    <<"U+6240", "U+6709", "U+7522", "U+54C1">>,
    <<"c", "p", "u">>,
    <<"i", "9", " ", "c", "p", "u", " ", "a", " ", "c", " ", "p">> }

\* a deterministic embedder gives texts that are equal the same vector
Embeddings(texts) ==
    {v \in [1..Len(texts) -> DIRECTIONS] :
        \A i, j \in 1..Len(texts) : texts[i] = texts[j] => v[i] = v[j]}

-----------------------------------------------------------------------------
(* The engine after RAGSystem.__init__ (rag_engine.py, lines 55-78).  The  *)
(* engine is synchronous: a caller issues a query when none is in progress *)
(* (last.op = "idle"), gets the result, and comes back for the next one.   *)

Idle == [op |-> "idle"]

Init ==
    /\ spec_file \in CorpusFiles
    /\ source_exists = TRUE
    /\ answers = {}
    /\ threads = <<>>
    /\ session = NoSession
    /\ chunks = chunk_data(spec_file)
    /\ vectors \in Embeddings(List([i \in 1..Len(chunks) |-> chunks[i].content]))
    /\ known_models = ProductNameExtractor(get_products(spec_file))
    /\ qa_items \in QAFiles
    /\ qa_vectors \in IF qa_items = <<>> THEN {None}
                      ELSE {Some(v) : v \in Embeddings(
                                List([i \in 1..Len(qa_items) |-> qa_items[i].question]))}
    /\ RETRIEVAL_TOP_K \in TopKValues
    /\ argsort_stable \in BOOLEAN
    /\ last = Idle

\* one call of _process_query; query_vec is what the embedder returns for the query
Process(user_question, query_vec) ==
    /\ last.op = "idle"
    /\ last' = process_query(user_question, query_vec)
    /\ UNCHANGED <<answers, threads, session, spec_file, source_exists, chunks, vectors, known_models, qa_items, qa_vectors,
                   RETRIEVAL_TOP_K, argsort_stable>>

\* the caller has consumed the result (main.py, lines 35-47: back to the prompt)
Return ==
    /\ last.op # "idle"
    /\ last' = Idle
    /\ UNCHANGED <<answers, threads, session, spec_file, source_exists, chunks, vectors, known_models, qa_items, qa_vectors,
                   RETRIEVAL_TOP_K, argsort_stable>>

Next ==
    \/ /\ last.op = "idle"
       /\ \E q \in Queries, v \in DIRECTIONS : Process(q, v)
    \/ Return

Spec == Init /\ [][Next]_vars

-----------------------------------------------------------------------------
(* ChunkRetriever.search called on its own, with any candidate list.       *)

MaxCandidates == 3

MaxK == 3

SearchQueries == { <<"c", "p", "u", " ", "s", "p", "e", "c", "s">>, <<"a", " ", "A", " ", "c", " ", "d", " ", "e", " ", "i", " ", "o", " ", "p", " ", "r", " ", "s", " ", "t", " ", "u">>, <<"q", "q">> }

\* a chunk that is not in the indexed corpus
StaleChunks == {FullSpecsChunk(BYH)}

RECURSIVE SeqsUpTo(_, _)
SeqsUpTo(S, n) ==
    IF n = 0 THEN {<<>>}
    ELSE LET shorter == SeqsUpTo(S, n - 1)
         IN  shorter \cup {Append(s, x) : s \in {t \in shorter : Len(t) = n - 1}, x \in S}

InitSearch ==
    /\ spec_file = <<BXH>>
    /\ source_exists = TRUE
    /\ answers = {}
    /\ threads = <<>>
    /\ session = NoSession
    /\ chunks = chunk_data(spec_file)
    /\ vectors \in Embeddings(List([i \in 1..Len(chunks) |-> chunks[i].content]))
    /\ known_models = ProductNameExtractor(get_products(spec_file))
    /\ qa_items = <<>>
    /\ qa_vectors = None
    /\ RETRIEVAL_TOP_K = 5
    /\ argsort_stable \in BOOLEAN
    /\ last = Idle

Search(query, query_vec, top_k, candidate_chunks) ==
    /\ last.op = "idle"
    /\ last' = [op         |-> "search",
                query      |-> query,
                query_vec  |-> query_vec,
                top_k      |-> top_k,
                candidates |-> candidate_chunks,
                out        |-> search(query, query_vec, top_k, candidate_chunks)]
    /\ UNCHANGED <<answers, threads, session, spec_file, source_exists, chunks, vectors, known_models, qa_items, qa_vectors,
                   RETRIEVAL_TOP_K, argsort_stable>>

CandidateLists ==
    {None} \cup {Some(s) : s \in SeqsUpTo(Range(chunks) \cup StaleChunks, MaxCandidates)}

NextSearch ==
    \/ /\ last.op = "idle"
       /\ \E q \in SearchQueries, v \in DIRECTIONS, k \in 0..MaxK, c \in CandidateLists :
              Search(q, v, k, c)
    \/ Return

SpecSearch == InitSearch /\ [][NextSearch]_vars

-----------------------------------------------------------------------------
(* Properties of _process_query, stated for the behaviours of Spec.        *)

Processed == last.op = "process"

\* the chunk entries of an evidence list
ChunkEvidence(evidence) == SelectSeq(evidence, LAMBDA e : e.type = "chunk")

IsFullSpecs(c) == c.metadata.key = FULL_SPECS

\* C1: a processed query is handled in the first mode whose test it passes:
\* Comparison if it contains a comparison keyword (no chunk search is made);
\* else SpecificProduct if a product id is extracted from it (the search is
\* over that product's chunks, no fact); else ProductList if it contains a
\* product-list keyword (a fact is injected, the search is over the corpus);
\* else General (no fact, the search is over the corpus).
C1_ModePriority ==
    Processed =>
        LET cmp == is_comparison_query(last.query)
            pid == extract(known_models, last.query)
            lst == is_product_list_query(last.query)
            facts == last.context.verified_facts
        IN  /\ cmp =>
                (last.mode = "Comparison" /\ last.chunk_embed_calls = 0)
            /\ (~cmp /\ pid # None) =>
                (/\ last.mode = "SpecificProduct"
                 /\ facts = <<>>
                 /\ last.candidates # None
                 /\ \A c \in Range(last.candidates[1]) : c.metadata.product_id = pid[1])
            /\ (~cmp /\ pid = None /\ lst) =>
                (last.mode = "ProductList" /\ facts # <<>> /\ last.candidates = Some(chunks))
            /\ (~cmp /\ pid = None /\ ~lst) =>
                (last.mode = "General" /\ facts = <<>> /\ last.candidates = Some(chunks))

\* a query with a comparison keyword and an extractable product id was handled
\* as a comparison
C1_Witness ==
    /\ Processed
    /\ is_comparison_query(last.query)
    /\ extract(known_models, last.query) # None
    /\ last.mode = "Comparison"
    /\ last.chunk_embed_calls = 0

\* C2: in Comparison mode no chunk search is made (the embedder is not called
\* for the chunk step) and the chunk evidence is exactly the Full Specs chunks
\* of the corpus, one per product, in corpus order, each with score 1.0,
\* whatever RETRIEVAL_TOP_K is.
C2_ComparisonAllFullSpecs ==
    (Processed /\ last.mode = "Comparison") =>
        LET full == SelectSeq(chunks, LAMBDA c :
                        c.metadata.category = OVERALL_SPECIFICATION /\ IsFullSpecs(c))
            shown == ChunkEvidence(last.evidence)
        IN  /\ last.chunk_embed_calls = 0
            /\ Len(full) = Len(spec_file)
            /\ \A p \in 1..Len(spec_file) :
                   full[p].metadata.product_id = spec_file[p].product_id
            /\ last.chunk_results = full
            /\ Len(shown) = Len(full)
            /\ \A i \in 1..Len(full) :
                   shown[i].content = full[i].content /\ shown[i].score = 1000
            /\ Len(last.context.retrieval_results) = Len(full)

\* C3: in SpecificProduct mode, with product id p extracted, the candidates of
\* the chunk search are exactly the corpus chunks of product p, in corpus
\* order, and every returned chunk, and every chunk entry of the evidence, is
\* a chunk of product p.
C3_SpecificProductOnly ==
    (Processed /\ last.mode = "SpecificProduct") =>
        LET p == extract(known_models, last.query)[1]
            own == {c \in Range(chunks) : c.metadata.product_id = p}
            idx == {i \in 1..Len(chunks) : chunks[i] \in own}
            shown == ChunkEvidence(last.evidence)
        IN  /\ last.candidates # None
            /\ Range(last.candidates[1]) = own
            /\ Len(last.candidates[1]) = Cardinality(idx)
            /\ \A c \in Range(last.ranked.results) : c.metadata.product_id = p
            /\ \A c \in Range(last.chunk_results) : c.metadata.product_id = p
            /\ \A i \in 1..Len(shown) :
                   /\ shown[i].content \in {c.content : c \in own}
                   /\ shown[i].content \notin {c.content : c \in Range(chunks) \ own}

\* a product query over a corpus of two products, with room in top_k for the
\* chunks of both, returned chunks
C3_Witness ==
    /\ Processed
    /\ last.mode = "SpecificProduct"
    /\ Len(spec_file) = 2
    /\ RETRIEVAL_TOP_K >= Len(chunks)
    /\ Len(last.chunk_results) >= 1
    /\ \E c \in Range(chunks) : c.metadata.product_id # last.extracted[1]

\* C4: in SpecificProduct and General mode, when the score of the top-ranked
\* chunk is above 1.2 no returned chunk has key "Full Specs" (even if the top
\* chunk is one), and when it is not above 1.2 every ranked chunk, Full Specs
\* chunks included, is returned.
C4_FullSpecsThreshold ==
    (Processed /\ last.mode \in {"SpecificProduct", "General"}) =>
        LET scores == last.ranked.scores
            above == scores # <<>> /\ scores[1] > 1200
        IN  /\ above =>
                /\ \A c \in Range(last.chunk_results) : ~IsFullSpecs(c)
                /\ \A e \in Range(ChunkEvidence(last.evidence)) :
                       e.content \notin {c.content : c \in {d \in Range(chunks) : IsFullSpecs(d)}}
            /\ ~above =>
                /\ \A i \in 1..Len(last.ranked.results) :
                       IsFullSpecs(last.ranked.results[i]) =>
                           last.ranked.results[i] \in Range(last.chunk_results)
                /\ last.chunk_results = last.ranked.results

\* a General query whose top-ranked chunk is a Full Specs chunk with a score
\* above 1.2: no Full Specs chunk is returned
C4_Witness ==
    /\ Processed
    /\ last.mode = "General"
    /\ last.ranked.scores # <<>>
    /\ last.ranked.scores[1] > 1200
    /\ IsFullSpecs(last.ranked.results[1])
    /\ \A c \in Range(last.chunk_results) : ~IsFullSpecs(c)

\* C5: in ProductList mode the chunk search is over the whole corpus, the
\* verified facts are exactly one string that lists the product name of every
\* product of the catalog, in catalog order, and no returned chunk has key
\* "Full Specs", whatever the scores are.
C5_ProductList ==
    (Processed /\ last.mode = "ProductList") =>
        LET names == List([i \in 1..Len(spec_file) |-> spec_file[i].product_name])
        IN  /\ last.candidates = Some(chunks)
            /\ last.chunk_embed_calls = 1
            /\ last.context.verified_facts =
                   << <<"F", "A", "C", "T", ":", " ", "T", "h", "e", " ", "a", "v", "a", "i", "l", "a", "b", "l", "e", " ", "p", "r", "o", "d", "u", "c", "t", "s", " ", "i", "n", " ", "t", "h", "e", " ", "d", "a", "t", "a", "b", "a", "s", "e", " ", "a", "r", "e", ":", " ">>
                      \o Join(names, <<",", " ">>) \o <<".">> >>
            /\ \A c \in Range(last.chunk_results) : ~IsFullSpecs(c)
            /\ \A c \in Range(last.ranked.results) :
                   ~IsFullSpecs(c) => c \in Range(last.chunk_results)

\* a product-list query over two products whose ranked chunks hold a Full
\* Specs chunk and have no score above 1.2: the Full Specs chunk is not
\* returned
C5_Witness ==
    /\ Processed
    /\ last.mode = "ProductList"
    /\ Len(spec_file) = 2
    /\ last.ranked.scores # <<>>
    /\ last.ranked.scores[1] <= 1200
    /\ \E c \in Range(last.ranked.results) : IsFullSpecs(c)
    /\ Len(last.chunk_results) < Len(last.ranked.results)

\* the items of the context string, in the order of the string: the chunks of
\* [Retrieval Results], then the pairs of [QA Database]
ContextItems(context) ==
    List([i \in 1..Len(context.retrieval_results) |->
        [type     |-> "chunk",
         content  |-> context.retrieval_results[i].content,
         score_2f |-> context.retrieval_results[i].score_2f]])
    \o List([i \in 1..Len(context.qa_database) |->
        [type     |-> "qa",
         content  |-> context.qa_database[i].content,
         score_2f |-> context.qa_database[i].score_2f]])

\* C6, as stated: the evidence list and the items of the context string are
\* the same items in the same order, each with the same score on both sides.
C6_SameItemsSameScore ==
    Processed =>
        LET items == ContextItems(last.context)
        IN  /\ Len(items) = Len(last.evidence)
            /\ \A i \in 1..Len(items) :
                   /\ items[i].type = last.evidence[i].type
                   /\ items[i].content = last.evidence[i].content
                   /\ items[i].score_2f * 10 = last.evidence[i].score

\* C6, amended: the evidence list and the items of the context string are the
\* same items in the same order (chunks in rank order, then QA pairs), and the
\* score an item has in the context string is its evidence score rounded to
\* two decimals.
C6_SameItemsRoundedScore ==
    Processed =>
        LET items == ContextItems(last.context)
        IN  /\ Len(items) = Len(last.evidence)
            /\ \A i \in 1..Len(items) :
                   /\ items[i].type = last.evidence[i].type
                   /\ items[i].content = last.evidence[i].content
                   /\ items[i].score_2f * 10 - last.evidence[i].score \in -5..5
            /\ \A i, j \in 1..Len(last.evidence) :
                   (last.evidence[i].type = "qa" /\ last.evidence[j].type = "chunk") => j < i
            /\ \A i \in 1..Len(last.chunk_results) :
                   last.evidence[i].content = last.chunk_results[i].content

\* a result from which a Full Specs chunk was filtered, with a chunk and a QA
\* pair left, one of them with a score that two decimals do not hold
C6_Witness ==
    /\ Processed
    /\ Len(last.chunk_results) >= 1
    /\ Len(last.chunk_results) < Len(last.ranked.results)
    /\ \E e \in Range(last.evidence) : e.type = "qa"
    /\ \E e \in Range(last.evidence) : e.score % 10 # 0

-----------------------------------------------------------------------------
(* Properties of ChunkRetriever.search, for the behaviours of SpecSearch.  *)
(* top_k is a number of chunks: 0, 1, 2, ...                               *)

Searched == last.op = "search"

InCorpus(c) == c \in Range(chunks)

\* the hybrid score of a corpus chunk: the cosine of its own stored vector
\* with the query vector plus its keyword bonus
OwnScore(c, query, query_vec) ==
    LET i == CHOOSE k \in 1..Len(chunks) : chunks[k] = c
        hits == {t \in Tokens(lower(query)) : Contains(lower(c.content), t)}
    IN  Cos(vectors[i], query_vec)
        + (IF Cardinality(hits) < 10 THEN 50 * Cardinality(hits) ELSE 500)

IsPrefix(s, t) == Len(s) <= Len(t) /\ \A i \in 1..Len(s) : s[i] = t[i]

\* C7: a search given a candidate list returns only chunks of that list.
C7_OnlyCandidates ==
    (Searched /\ last.candidates # None) =>
        \A c \in Range(last.out.results) : c \in Range(last.candidates[1])

\* a search over a candidate list that leaves a corpus chunk out, with room in
\* top_k for the whole corpus, returned chunks
C7_Witness ==
    /\ Searched
    /\ last.candidates # None
    /\ \A c \in Range(last.candidates[1]) : InCorpus(c)
    /\ \E c \in Range(chunks) : c \notin Range(last.candidates[1])
    /\ last.top_k >= Len(chunks)
    /\ Len(last.out.results) >= 1

\* C8: a candidate that is not in the corpus is skipped: the search returns
\* the chunks and scores it returns for the candidate list without the absent
\* chunks, and never an absent chunk.
C8_AbsentSkipped ==
    (Searched /\ last.candidates # None) =>
        LET present == SelectSeq(last.candidates[1], InCorpus)
            without == search(last.query, last.query_vec, last.top_k, Some(present))
        IN  /\ last.out.results = without.results
            /\ last.out.scores = without.scores
            /\ \A c \in Range(last.out.results) : InCorpus(c)

\* C9: a search returns as many scores as chunks, at most top_k of them; the
\* i-th score is the hybrid score of the i-th returned chunk, from that
\* chunk's own stored vector; the scores do not increase.
C9_ParallelOwnScores ==
    Searched =>
        LET results == last.out.results
            scores  == last.out.scores
        IN  /\ Len(results) = Len(scores)
            /\ Len(results) <= last.top_k
            /\ \A i \in 1..Len(results) :
                   /\ InCorpus(results[i])
                   /\ scores[i] = OwnScore(results[i], last.query, last.query_vec)
            /\ \A i \in 1..(Len(scores) - 1) : scores[i] >= scores[i + 1]

\* C10: the chunks and scores of a search with top_k = n are a prefix of the
\* chunks and scores of the same search with top_k = n + 1.
C10_TopKPrefix ==
    Searched =>
        LET more == search(last.query, last.query_vec, last.top_k + 1, last.candidates)
        IN  /\ IsPrefix(last.out.results, more.results)
            /\ IsPrefix(last.out.scores, more.scores)

\* a search with top_k = n >= 1 returned n chunks, two of them with different
\* scores, and the search with n + 1 returns one more
C10_Witness ==
    /\ Searched
    /\ last.top_k >= 1
    /\ Len(last.out.results) = last.top_k
    /\ Len(search(last.query, last.query_vec, last.top_k + 1, last.candidates).results)
           = last.top_k + 1
    /\ last.out.scores[1] # search(last.query, last.query_vec, last.top_k + 1,
                                   last.candidates).scores[last.top_k + 1]

\* the indices of scores by descending score, equal scores in index order
StableDescending(scores) ==
    LET pos(i) == 1 + Cardinality({j \in 1..Len(scores) :
                        scores[j] > scores[i] \/ (scores[j] = scores[i] /\ j < i)})
    IN  List([k \in 1..Len(scores) |-> CHOOSE i \in 1..Len(scores) : pos(i) = k])

\* C11: candidates with equal scores are returned in the order they have in
\* the candidate sequence, the earlier first, so that of a group of equal
\* scores cut by top_k the earliest candidates are the ones returned.
C11_StableTies ==
    Searched =>
        LET target_chunks == TargetChunks(last.candidates)
            final_scores  == FinalScores(target_chunks, TargetIndices(target_chunks),
                                         Tokens(lower(last.query)), last.query_vec)
            order == Take(StableDescending(final_scores), last.top_k)
        IN  /\ last.out.results = List([i \in 1..Len(order) |-> target_chunks[order[i]]])
            /\ last.out.scores  = List([i \in 1..Len(order) |-> final_scores[order[i]]])

\* the keyword bonus of a chunk: 0.05 per distinct lower-cased token of the
\* query that is in the lower-cased content, at most 0.5
Bonus(c, query) ==
    LET n == Cardinality({t \in Tokens(lower(query)) : Contains(lower(c.content), t)})
    IN  IF n >= 10 THEN 500 ELSE 50 * n

MatchingTokens(c, query) ==
    Cardinality({t \in Tokens(lower(query)) : Contains(lower(c.content), t)})

-----------------------------------------------------------------------------
(* QARetriever.search called on its own, with any scope and any top_k.     *)

MaxQAK == 2

QA_BXH == [question |-> <<"c", "p", "u", "?">>, answer |-> <<"i", "9">>, product_name |-> <<"B", "X", "H">>]

QA_byh == [question |-> <<"r", "a", "m", "?">>, answer |-> <<"3", "2", "G", "B">>, product_name |-> <<"b", "y", "h">>]

QA_OVERALL == [question |-> <<"b", "a", "t", "t", "e", "r", "y", " ", "l", "i", "f", "e", "?">>, answer |-> <<"1", "0", " ", "h", "o", "u", "r", "s">>, product_name |-> <<"o", "v", "e", "r", "a", "l", "l">>]

QASearchFiles == {
    <<>>,
    <<QA_OVERALL>>,
    <<QA_BXH, QA_byh>>,
    <<QA_byh, QA_OVERALL, QA_BXH>> }

QAScopes == {None, Some(<<"B", "X", "H">>), Some(<<"B", "Y", "H">>), Some(<<"B", "Z", "H">>), Some(<<"o", "v", "e", "r", "a", "l", "l">>)}

InitQA ==
    /\ spec_file = <<BXH>>
    /\ source_exists = TRUE
    /\ answers = {}
    /\ threads = <<>>
    /\ session = NoSession
    /\ chunks = chunk_data(spec_file)
    /\ vectors = List([i \in 1..Len(chunks) |-> 0])
    /\ known_models = ProductNameExtractor(get_products(spec_file))
    /\ qa_items \in QASearchFiles
    /\ qa_vectors \in IF qa_items = <<>> THEN {None}
                      ELSE {Some(v) : v \in Embeddings(
                                List([i \in 1..Len(qa_items) |-> qa_items[i].question]))}
    /\ RETRIEVAL_TOP_K = 5
    /\ argsort_stable \in BOOLEAN
    /\ last = Idle

QASearch(query_vec, product_name, top_k) ==
    /\ last.op = "idle"
    /\ last' = [op        |-> "qa_search",
                query_vec |-> query_vec,
                scope     |-> product_name,
                top_k     |-> top_k,
                out       |-> qa_search(query_vec, product_name, top_k)]
    /\ UNCHANGED <<answers, threads, session, spec_file, source_exists, chunks, vectors, known_models, qa_items, qa_vectors,
                   RETRIEVAL_TOP_K, argsort_stable>>

NextQA ==
    \/ /\ last.op = "idle"
       /\ \E v \in DIRECTIONS, s \in QAScopes, k \in 0..MaxQAK : QASearch(v, s, k)
    \/ Return

SpecQA == InitQA /\ [][NextQA]_vars

-----------------------------------------------------------------------------
(* Properties of QARetriever.search, for the behaviours of SpecQA.         *)

QASearched == last.op = "qa_search"

\* the item is in the scope: its product name is the scope, whatever the
\* case, or is "overall"
InScope(item, scope) ==
    \/ upper(item.product_name) = upper(IF scope = None THEN OVERALL ELSE scope[1])
    \/ item.product_name = OVERALL

\* the cosine of a QA item's own stored vector with the query vector
QAOwnScore(item, query_vec) ==
    Cos(qa_vectors[1][CHOOSE k \in 1..Len(qa_items) : qa_items[k] = item], query_vec)

\* C13: when some item is in the scope, every returned item is in the scope,
\* at most top_k items are returned, the scores do not increase and each
\* score is the cosine of its own item.
C13_QAScoped ==
    (QASearched /\ \E q \in Range(qa_items) : InScope(q, last.scope)) =>
        LET results == last.out.results
            scores  == last.out.scores
        IN  /\ \A q \in Range(results) : q \in Range(qa_items) /\ InScope(q, last.scope)
            /\ Len(results) <= last.top_k
            /\ Len(scores) = Len(results)
            /\ \A i \in 1..Len(results) : scores[i] = QAOwnScore(results[i], last.query_vec)
            /\ \A i \in 1..(Len(scores) - 1) : scores[i] >= scores[i + 1]

\* a search scoped to a product, over an index that also holds an item of
\* another product with a higher score, returned the scope's items only
C13_Witness ==
    /\ QASearched
    /\ last.scope = Some(<<"B", "X", "H">>)
    /\ last.top_k = 2
    /\ Len(last.out.results) = 2
    /\ \E q \in Range(qa_items) :
           /\ ~InScope(q, last.scope)
           /\ QAOwnScore(q, last.query_vec) > last.out.scores[1]

\* C14: when the index is not empty and no item is in the scope, the search
\* ranks every item and returns the top_k best, all of them if there are
\* fewer than top_k.
C14_QAFallback ==
    (QASearched /\ qa_items # <<>> /\ \A q \in Range(qa_items) : ~InScope(q, last.scope)) =>
        LET results == last.out.results
            scores  == last.out.scores
        IN  /\ Len(results) = (IF last.top_k < Len(qa_items) THEN last.top_k ELSE Len(qa_items))
            /\ Len(scores) = Len(results)
            /\ \A i \in 1..Len(results) :
                   /\ results[i] \in Range(qa_items)
                   /\ scores[i] = QAOwnScore(results[i], last.query_vec)
            /\ \A i, j \in 1..Len(results) : i # j => results[i] # results[j]
            /\ \A q \in Range(qa_items) \ Range(results) :
                   \A i \in 1..Len(scores) : QAOwnScore(q, last.query_vec) <= scores[i]

\* a search whose scope no item matches returned an item
C14_Witness ==
    /\ QASearched
    /\ last.scope = Some(<<"B", "Z", "H">>)
    /\ Len(qa_items) = 2
    /\ last.top_k = 1
    /\ Len(last.out.results) = 1

\* C15: on an index of zero items the search returns two empty sequences and
\* does not call the embedder.
C15_QAEmptyNoEmbed ==
    (QASearched /\ qa_items = <<>>) =>
        /\ last.out.results = <<>>
        /\ last.out.scores = <<>>
        /\ last.out.embed_calls = 0

\* a search for two items on an index of zero items
C15_Witness ==
    /\ QASearched
    /\ qa_items = <<>>
    /\ last.top_k = 2
    /\ last.out.results = <<>>
    /\ last.out.embed_calls = 0

-----------------------------------------------------------------------------
(* Building the indexes: ChunkRetriever.add_chunks (src/src/retriever.py,  *)
(* lines 99-121) and QARetriever.__init__ with _load_qa_dataset (lines     *)
(* 209-266).  The embedder is called once per text; embedded is what it    *)
(* returns, and fail_at = i > 0 says that its i-th call raises.            *)

\* add_chunks: self.chunks is assigned first; the vectors are assigned after
\* the last embedding, and np.stack raises on an empty list
add_chunks(old_vectors, new_chunks, embedded, fail_at) ==
    IF fail_at > 0
    THEN [chunks |-> new_chunks, vectors |-> old_vectors, raised |-> Some("EmbedderError")]
    ELSE IF new_chunks = <<>>
    THEN [chunks |-> new_chunks, vectors |-> old_vectors, raised |-> Some("ValueError")]
    ELSE [chunks |-> new_chunks, vectors |-> embedded, raised |-> None]

\* the QA source: no file, a file that is not JSON, or a JSON value
QA_MISSING == [kind |-> "missing", is_object |-> FALSE, qa_pairs |-> <<>>]

QA_NOT_JSON == [kind |-> "invalid_json", is_object |-> FALSE, qa_pairs |-> <<>>]

QAJson(is_object, qa_pairs) == [kind |-> "json", is_object |-> is_object, qa_pairs |-> qa_pairs]

\* an entry of "qa_pairs" that is an object, and one that is not (a string)
QAObject(item) == [is_object |-> TRUE, item |-> item]

QA_STRING_ENTRY == [is_object |-> FALSE, item |-> QA_OVERALL]

QASources == {
    QA_MISSING,
    QA_NOT_JSON,
    QAJson(FALSE, <<>>),
    QAJson(TRUE, <<>>),
    QAJson(TRUE, <<QAObject(QA_OVERALL)>>),
    QAJson(TRUE, <<QAObject(QA_BXH), QAObject(QA_byh)>>),
    QAJson(TRUE, <<QAObject(QA_BXH), QA_STRING_ENTRY>>) }

\* __init__ and _load_qa_dataset: qa_items starts empty and vectors starts as
\* None; FileNotFoundError and json.JSONDecodeError are caught; data.get on a
\* value that is not an object, and qa.get on an entry that is not one, raise
\* AttributeError, which is not caught
load_qa_dataset(source, embedded) ==
    LET bad == {i \in 1..Len(source.qa_pairs) : ~source.qa_pairs[i].is_object}
        upto == IF bad = {} THEN Len(source.qa_pairs) ELSE Min(bad) - 1
        items == List([i \in 1..upto |-> source.qa_pairs[i].item])
    IN  IF source.kind # "json"
        THEN [qa_items |-> <<>>, vectors |-> None, raised |-> None]
        ELSE IF ~source.is_object
        THEN [qa_items |-> <<>>, vectors |-> None, raised |-> Some("AttributeError")]
        ELSE IF bad # {}
        THEN [qa_items |-> items, vectors |-> None, raised |-> Some("AttributeError")]
        ELSE [qa_items |-> items,
              vectors  |-> IF items = <<>> THEN None ELSE Some(embedded),
              raised   |-> None]

BuildCorpora == {<<>>, chunk_data(<<BXH>>), chunk_data(<<BXH, BYH>>)}

\* a ChunkRetriever and a QARetriever whose fields have their initial values
InitBuild ==
    /\ spec_file = <<BXH, BYH>>
    /\ source_exists = TRUE
    /\ answers = {}
    /\ threads = <<>>
    /\ session = NoSession
    /\ chunks = <<>>
    /\ vectors = <<>>
    /\ known_models = <<>>
    /\ qa_items = <<>>
    /\ qa_vectors = None
    /\ RETRIEVAL_TOP_K = 5
    /\ argsort_stable \in BOOLEAN
    /\ last = Idle

AddChunks(new_chunks, embedded, fail_at) ==
    /\ last.op = "idle"
    /\ LET out == add_chunks(vectors, new_chunks, embedded, fail_at)
       IN  /\ chunks' = out.chunks
           /\ vectors' = out.vectors
           /\ last' = [op         |-> "add_chunks",
                       before     |-> [chunks |-> chunks, vectors |-> vectors],
                       new_chunks |-> new_chunks,
                       embedded   |-> embedded,
                       raised     |-> out.raised]
    /\ UNCHANGED <<answers, threads, session, spec_file, source_exists, known_models, qa_items, qa_vectors,
                   RETRIEVAL_TOP_K, argsort_stable>>

LoadQA(source, embedded) ==
    /\ last.op = "idle"
    /\ LET out == load_qa_dataset(source, embedded)
       IN  /\ qa_items' = out.qa_items
           /\ qa_vectors' = out.vectors
           /\ last' = [op |-> "load_qa", source |-> source, raised |-> out.raised]
    /\ UNCHANGED <<answers, threads, session, spec_file, source_exists, chunks, vectors, known_models,
                   RETRIEVAL_TOP_K, argsort_stable>>

NextBuild ==
    \/ /\ last.op = "idle"
       /\ \E new_chunks \in BuildCorpora :
            \/ \E embedded \in Embeddings(List([i \in 1..Len(new_chunks) |->
                                                 new_chunks[i].content])) :
                   AddChunks(new_chunks, embedded, 0)
            \/ \E fail_at \in 1..Len(new_chunks) : AddChunks(new_chunks, <<>>, fail_at)
    \/ /\ last.op = "idle"
       /\ \E source \in QASources :
            \E embedded \in Embeddings(List([i \in 1..Len(source.qa_pairs) |->
                                              source.qa_pairs[i].item.question])) :
                LoadQA(source, embedded)
    \/ Return

SpecBuild == InitBuild /\ [][NextBuild]_vars

-----------------------------------------------------------------------------
(* Properties of the construction, for the behaviours of SpecBuild.        *)

\* the source cannot be read as a QA dataset: it is missing, is not JSON, or
\* is JSON of another structure
Unreadable(source) ==
    \/ source.kind # "json"
    \/ ~source.is_object
    \/ \E i \in 1..Len(source.qa_pairs) : ~source.qa_pairs[i].is_object

\* C16: when the QA source cannot be read, the construction of the QA index
\* does not raise, the index is empty, and every search returns two empty
\* sequences.
C16_QALoadNeverRaises ==
    (last.op = "load_qa" /\ Unreadable(last.source)) =>
        /\ last.raised = None
        /\ qa_items = <<>>
        /\ \A v \in DIRECTIONS, s \in QAScopes, k \in 0..MaxQAK :
               LET out == qa_search(v, s, k)
               IN  out.results = <<>> /\ out.scores = <<>>

\* C17: an add_chunks call that returns has replaced the chunks and the
\* vectors by those of the new corpus, a call that raises has left both as
\* they were, and after either the vectors are as many as the chunks.
C17_AddChunksAtomic ==
    last.op = "add_chunks" =>
        /\ last.raised = None =>
               (chunks = last.new_chunks /\ vectors = last.embedded)
        /\ last.raised # None =>
               (chunks = last.before.chunks /\ vectors = last.before.vectors)
        /\ Len(vectors) = Len(chunks)

-----------------------------------------------------------------------------
(* _process_query when the embedder raises or the corpus file has changed. *)
(* _process_query has no try: what a step raises leaves the call at once   *)
(* (src/src/rag_engine.py, lines 84-197).  fail_at = n > 0 says that the   *)
(* n-th call this query makes to the embedder raises.                      *)

\* an outcome in which the failure of the chunk search is handled and the
\* call goes on to the QA search
FaultOutcomeHandled(ok, user_question, fail_at) ==
    LET calls == ok.chunk_embed_calls + ok.qa_embed_calls
    IN  IF ok.mode = "ProductList" /\ ~source_exists
        THEN [op |-> "process", query |-> user_question, fail_at |-> fail_at,
              raised |-> Some("FileNotFoundError"), embed_calls |-> 0,
              qa_attempted |-> FALSE, returned |-> None]
        ELSE IF fail_at = 0 \/ fail_at > calls
        THEN [op |-> "process", query |-> user_question, fail_at |-> fail_at,
              raised |-> None, embed_calls |-> calls,
              qa_attempted |-> TRUE, returned |-> Some(ok)]
        ELSE [op |-> "process", query |-> user_question, fail_at |-> fail_at,
              raised |-> Some("EmbedderError"), embed_calls |-> calls,
              qa_attempted |-> TRUE, returned |-> None]

\* the outcome of a call, ok being what it returns when nothing fails:
\* get_products opens the file in the ProductList branch (line 123) before
\* any embedding; the chunk search embeds the query first (there is no
\* embedding in the Comparison branch), the QA search second
FaultOutcome(ok, user_question, fail_at) ==
    LET calls == ok.chunk_embed_calls + ok.qa_embed_calls
        in_chunk_search == fail_at = 1 /\ ok.chunk_embed_calls = 1
    IN  IF ok.mode = "ProductList" /\ ~source_exists
        THEN [op |-> "process", query |-> user_question, fail_at |-> fail_at,
              raised |-> Some("FileNotFoundError"), embed_calls |-> 0,
              qa_attempted |-> FALSE, returned |-> None]
        ELSE IF fail_at = 0 \/ fail_at > calls
        THEN [op |-> "process", query |-> user_question, fail_at |-> fail_at,
              raised |-> None, embed_calls |-> calls,
              qa_attempted |-> TRUE, returned |-> Some(ok)]
        ELSE [op |-> "process", query |-> user_question, fail_at |-> fail_at,
              raised |-> Some("EmbedderError"), embed_calls |-> fail_at,
              qa_attempted |-> ~in_chunk_search, returned |-> None]

FaultQueries == {
    <<"c", "o", "m", "p", "a", "r", "e", " ", "b", "x", "h", " ", "a", "n", "d", " ", "b", "y", "h">>,
    <<"b", "x", "h", " ", "c", "p", "u", " ", "i", "9", " ", "a", " ", "c">>,
    <<"l", "i", "s", "t", " ", "p", "r", "o", "d", "u", "c", "t", "s">>,
    <<"c", "p", "u">> }

SourceFiles == { <<BXH>>, <<BXH, BYH>>, <<BYH>> }

InitFaults ==
    /\ spec_file \in {<<BXH>>, <<BXH, BYH>>}
    /\ source_exists = TRUE
    /\ answers = {}
    /\ threads = <<>>
    /\ session = NoSession
    /\ chunks = chunk_data(spec_file)
    /\ vectors = List([i \in 1..Len(chunks) |-> 0])
    /\ known_models = ProductNameExtractor(get_products(spec_file))
    /\ qa_items \in {<<>>, <<QA_OVERALL>>}
    /\ qa_vectors = IF qa_items = <<>> THEN None ELSE Some(<<0>>)
    /\ RETRIEVAL_TOP_K = 5
    /\ argsort_stable \in BOOLEAN
    /\ last = Idle

\* a call that reloads the extractor's catalog from the file
ProcessFaultsReloading(user_question, query_vec, fail_at) ==
    /\ last.op = "idle"
    /\ \E ok \in {process_query(user_question, query_vec)} :
           last' = FaultOutcome(ok, user_question, fail_at)
    /\ known_models' = ProductNameExtractor(get_products(spec_file))
    /\ UNCHANGED <<answers, threads, session, spec_file, source_exists, chunks, vectors, qa_items, qa_vectors,
                   RETRIEVAL_TOP_K, argsort_stable>>

ProcessFaults(user_question, query_vec, fail_at) ==
    /\ last.op = "idle"
    /\ \E ok \in {process_query(user_question, query_vec)} :
           last' = FaultOutcome(ok, user_question, fail_at)
    /\ UNCHANGED <<answers, threads, session, spec_file, source_exists, chunks, vectors, known_models, qa_items, qa_vectors,
                   RETRIEVAL_TOP_K, argsort_stable>>

\* the corpus file is written again, with other products
RewriteSource(file) ==
    /\ last.op = "idle"
    /\ spec_file' = file
    /\ source_exists' = TRUE
    /\ UNCHANGED <<answers, threads, session, chunks, vectors, known_models, qa_items,
                   qa_vectors, RETRIEVAL_TOP_K, argsort_stable, last>>

\* the corpus file is removed
RemoveSource ==
    /\ last.op = "idle"
    /\ source_exists
    /\ source_exists' = FALSE
    /\ UNCHANGED <<answers, threads, session, spec_file, chunks, vectors, known_models, qa_items, qa_vectors,
                   RETRIEVAL_TOP_K, argsort_stable, last>>

NextFaults ==
    \/ /\ last.op = "idle"
       /\ \E q \in FaultQueries, v \in DIRECTIONS, n \in 0..2 : ProcessFaults(q, v, n)
    \/ /\ last.op = "idle"
       /\ \E v \in DIRECTIONS, c \in {None, Some(chunks)} : Search(<<"c", "p", "u", " ", "s", "p", "e", "c", "s">>, v, 1, c)
    \/ /\ last.op = "idle"
       /\ \E v \in DIRECTIONS, s \in QAScopes : QASearch(v, s, 1)
    \/ \E file \in SourceFiles : RewriteSource(file)
    \/ RemoveSource
    \/ Return

SpecFaults == InitFaults /\ [][NextFaults]_vars


-----------------------------------------------------------------------------
(* Properties of the calls made after construction, for the behaviours of  *)
(* SpecFaults.                                                             *)

\* a step that is a call of search, of the QA search or of _process_query
IsCall == last.op = "idle" /\ last'.op \in {"process", "search", "qa_search"}

IndexUnchanged ==
    /\ chunks' = chunks
    /\ vectors' = vectors
    /\ qa_items' = qa_items
    /\ qa_vectors' = qa_vectors
    /\ known_models' = known_models

\* C18: a call of ChunkRetriever.search, of QARetriever.search or of
\* _process_query leaves the chunk list, the chunk vectors, the QA items, the
\* QA vectors and the extractor's catalog as they were, whatever the query
\* and whether the call returns or raises.
C18_IndexReadOnly == [][IsCall => IndexUnchanged]_vars

\* a call of _process_query in which the QA search raised, after a chunk
\* search was made
C18_Witness ==
    /\ last.op = "process"
    /\ last.raised = Some("EmbedderError")
    /\ last.fail_at = 2
    /\ Len(chunks) >= 1
    /\ qa_items # <<>>

\* the product names of the catalog loaded at construction, which the
\* extractor keeps
StartupNames == List([i \in 1..Len(known_models) |-> known_models[i][2]])

\* C19: _process_query never consults the corpus file after construction: a
\* call in which the embedder does not fail returns, and the fact of the
\* ProductList mode lists the product names of the catalog loaded at
\* construction, whether or not the file was changed or removed since.
C19_LoadedOnce ==
    (last.op = "process" /\ last.fail_at = 0) =>
        /\ last.raised = None
        /\ last.returned # None
        /\ last.returned[1].mode = "ProductList" =>
               last.returned[1].context.verified_facts =
                   << <<"F", "A", "C", "T", ":", " ", "T", "h", "e", " ", "a", "v", "a", "i", "l", "a", "b", "l", "e", " ", "p", "r", "o", "d", "u", "c", "t", "s", " ", "i", "n", " ", "t", "h", "e", " ", "d", "a", "t", "a", "b", "a", "s", "e", " ", "a", "r", "e", ":", " ">>
                      \o Join(StartupNames, <<",", " ">>) \o <<".">> >>

\* the number of calls a query makes to the embedder when none fails; it does
\* not depend on the query vector
EmbedCalls(user_question) ==
    LET ok == process_query(user_question, 0)
    IN  ok.chunk_embed_calls + ok.qa_embed_calls

\* a step that is a call of _process_query in which the embedder raises
EmbedderRaises ==
    /\ last.op = "idle"
    /\ last'.op = "process"
    /\ last'.fail_at >= 1
    /\ last'.fail_at <= EmbedCalls(last'.query)
    /\ ~(process_query(last'.query, 0).mode = "ProductList" /\ ~source_exists)

\* C20: when the embedder raises while _process_query embeds the query, the
\* call raises that failure and returns no context and no evidence, the
\* embedder is not called again for the query (after a failure in the chunk
\* search the QA search is not attempted), and the index is as it was.
C20_EmbedFailurePropagates ==
    [][EmbedderRaises =>
        /\ last'.raised = Some("EmbedderError")
        /\ last'.returned = None
        /\ last'.embed_calls = last'.fail_at
        /\ (last'.fail_at = 1 /\ ~is_comparison_query(last'.query)) =>
               ~last'.qa_attempted
        /\ IndexUnchanged]_vars

\* a call whose chunk search raised, with a QA dataset that the QA search
\* would have embedded the query for
C20_Witness ==
    /\ last.op = "process"
    /\ last.raised = Some("EmbedderError")
    /\ last.fail_at = 1
    /\ ~is_comparison_query(last.query)
    /\ qa_items # <<>>
    /\ ~last.qa_attempted

-----------------------------------------------------------------------------
(* ProductNameExtractor.extract called on its own (query_analyzer.py,      *)
(* lines 172-200), over catalogs of zero to three products.                *)

MaxWords == 2

ExtractWords == { <<"b", "x", "h">>, <<"B", "y", "H">>, <<"b", "z", "h">>, <<"c", "p", "u">>, <<"x", "b", "y", "h", "x">> }

\* the queries: up to MaxWords words with a space between them
ExtractQueries == {Join(ws, <<" ">>) : ws \in SeqsUpTo(ExtractWords, MaxWords)}

\* a catalog file may hold no product: get_products then returns []
ExtractCatalogs ==
    { <<>>, <<BXH>>, <<BYH>>, <<BZH>>, <<BXH, BYH>>, <<BYH, BXH>>, <<BXH, BYH, BZH>> }

InitExtract ==
    /\ spec_file \in ExtractCatalogs
    /\ source_exists = TRUE
    /\ answers = {}
    /\ threads = <<>>
    /\ session = NoSession
    /\ chunks = chunk_data(spec_file)
    /\ vectors = List([i \in 1..Len(chunks) |-> 0])
    /\ known_models = ProductNameExtractor(get_products(spec_file))
    /\ qa_items = <<>>
    /\ qa_vectors = None
    /\ RETRIEVAL_TOP_K = 5
    /\ argsort_stable = TRUE
    /\ last = Idle

Extract(query) ==
    /\ last.op = "idle"
    /\ last' = [op    |-> "extract",
                query |-> query,
                out   |-> extract(known_models, query)]
    /\ UNCHANGED <<answers, threads, session, spec_file, source_exists, chunks, vectors, known_models, qa_items,
                   qa_vectors, RETRIEVAL_TOP_K, argsort_stable>>

NextExtract ==
    \/ /\ last.op = "idle"
       /\ \E q \in ExtractQueries : Extract(q)
    \/ Return

SpecExtract == InitExtract /\ [][NextExtract]_vars

\* the i-th product of the catalog matches the query: the upper-cased last
\* '-'-delimited segment of its id occurs in the upper-cased query
SuffixMatches(i, query) ==
    Contains(upper(query), upper(LastSegment(known_models[i][1])))

\* C21: with a non-empty catalog, extract returns the id of the first product
\* in catalog order whose upper-cased last id segment is a substring of the
\* upper-cased query, and None when no product matches, even when the query
\* holds one of the hard-coded suffixes.
C21_FirstCatalogMatch ==
    (last.op = "extract" /\ known_models # <<>>) =>
        LET matching == {i \in 1..Len(known_models) : SuffixMatches(i, last.query)}
        IN  /\ matching # {} =>
                \E i \in matching :
                    /\ \A j \in matching : i <= j
                    /\ last.out = Some(known_models[i][1])
            /\ matching = {} => last.out = None

\* a query that names the second product of the catalog before the first, in
\* mixed case and inside a longer word: the first product of the catalog is
\* returned
C21_Witness ==
    /\ last.op = "extract"
    /\ known_models = ProductNameExtractor(<<BXH, BYH>>)
    /\ last.query = <<"x", "b", "y", "h", "x", " ", "b", "x", "h">>
    /\ last.out = Some(BXH.product_id)

-----------------------------------------------------------------------------
(* More properties of _process_query, for the behaviours of Spec.          *)

\* the QA entries of an evidence list
QAEvidence(evidence) == SelectSeq(evidence, LAMBDA e : e.type = "qa")

\* C22: in every mode, Comparison included, the QA pairs of a processed query
\* are those of one QA search with top_k = 1 whose scope is the upper-cased
\* last '-'-segment of the extracted product id when an id was extracted and
\* "overall" when none was.
C22_QAScopeOnce ==
    Processed =>
        LET pid   == extract(known_models, last.query)
            scope == IF pid # None THEN upper(LastSegment(pid[1])) ELSE <<"o", "v", "e", "r", "a", "l", "l">>
            qa    == qa_search(last.query_vec, Some(scope), 1)
            shown == QAEvidence(last.evidence)
        IN  /\ last.qa_scope = scope
            /\ last.qa_top_k = 1
            /\ last.qa_embed_calls <= 1
            /\ Len(shown) <= 1
            /\ Len(shown) = Len(qa.results)
            /\ \A i \in 1..Len(shown) :
                   /\ shown[i].content = QAContent(qa.results[i])
                   /\ shown[i].score = qa.scores[i]
            /\ Len(last.context.qa_database) = Len(shown)

\* a comparison query that names a product, over a QA dataset with a pair of
\* that product and a pair of another product whose question is nearer to the
\* query: the pair of the named product is returned
C22_Witness ==
    /\ Processed
    /\ last.mode = "Comparison"
    /\ last.extracted = Some(BXH.product_id)
    /\ last.qa_scope = <<"B", "X", "H">>
    /\ Len(qa_items) = 2
    /\ qa_vectors[1][1] # last.query_vec
    /\ qa_vectors[1][2] = last.query_vec
    /\ Len(QAEvidence(last.evidence)) = 1
    /\ QAEvidence(last.evidence)[1].content = QAContent(qa_items[1])

\* the pair that marks the "Full Machine Specs" chunk of a product
\* (data_loader.py, lines 173-178)
HasFullSpecsPair(c) ==
    c.metadata.category = OVERALL_SPECIFICATION /\ c.metadata.key = FULL_SPECS

\* the ranked chunks that the exclusion loop removed
Removed == {c \in Range(last.ranked.results) : c \notin Range(last.chunk_results)}

\* C27: a chunk is treated as a Full Specs chunk exactly when its metadata has
\* category "Overall Specification" and key "Full Specs": in Comparison mode
\* the chunks returned are the chunks of the corpus with that pair, and in
\* every mode a chunk that the exclusion removes has that pair; a spec chunk
\* of another category is not treated as a Full Specs chunk.
C27_FullSpecsByPair ==
    Processed =>
        /\ last.mode = "Comparison" =>
               \A c \in Range(chunks) :
                   c \in Range(last.ranked.results) <=> HasFullSpecsPair(c)
        /\ \A c \in Removed : HasFullSpecsPair(c)

\* C28: the exclusion only removes entries: the final chunks and scores are a
\* subsequence of the ranked chunks and scores (same relative order, each
\* chunk with the score it was ranked with), every removed chunk has key
\* "Full Specs", the chunk search is made at most once, and outside Comparison
\* mode the ranked list, from which alone the final list is taken, has at most
\* RETRIEVAL_TOP_K chunks.
C28_FilterOnlyRemoves ==
    Processed =>
        LET ranked == last.ranked
            kept   == SelectSeq(List([i \in 1..Len(ranked.results) |-> i]),
                          LAMBDA i : ranked.results[i] \in Range(last.chunk_results))
        IN  /\ Len(last.chunk_results) = Len(last.chunk_scores)
            /\ Len(kept) = Len(last.chunk_results)
            /\ \A i \in 1..Len(kept) :
                   /\ last.chunk_results[i] = ranked.results[kept[i]]
                   /\ last.chunk_scores[i] = ranked.scores[kept[i]]
            /\ \A c \in Removed : c.metadata.key = FULL_SPECS
            /\ last.chunk_embed_calls <= 1
            /\ last.mode # "Comparison" => Len(ranked.results) <= RETRIEVAL_TOP_K
            /\ Len(last.chunk_results) <= Len(ranked.results)

\* a query over two products with top_k = 3: a Full Specs chunk is removed
\* from between two ranked chunks, the two are returned in their ranked order
\* with their scores, and the fourth chunk of the corpus is not pulled in
C28_Witness ==
    /\ Processed
    /\ RETRIEVAL_TOP_K = 3
    /\ Len(chunks) = 4
    /\ Len(last.ranked.results) = 3
    /\ last.ranked.results[2].metadata.key = FULL_SPECS
    /\ last.chunk_results = <<last.ranked.results[1], last.ranked.results[3]>>
    /\ last.chunk_scores = <<last.ranked.scores[1], last.ranked.scores[3]>>

-----------------------------------------------------------------------------
(* Repeated queries: callers ask the same engine several times and keep    *)
(* what _process_query returned to them, while the corpus file may be      *)
(* written again or removed between two calls.                             *)

MaxAnswers == 2

RepeatQueries == { <<"l", "i", "s", "t", " ", "p", "r", "o", "d", "u", "c", "t", "s">>, <<"c", "p", "u">>, <<"b", "x", "h", " ", "c", "p", "u">> }

InitRepeat ==
    /\ spec_file \in {<<BXH>>, <<BXH, BYH>>}
    /\ source_exists = TRUE
    /\ answers = {}
    /\ threads = <<>>
    /\ session = NoSession
    /\ chunks = chunk_data(spec_file)
    /\ vectors = List([i \in 1..Len(chunks) |-> 0])
    /\ known_models = ProductNameExtractor(get_products(spec_file))
    /\ qa_items \in {<<>>, <<QA_OVERALL>>}
    /\ qa_vectors = IF qa_items = <<>> THEN None ELSE Some(<<0>>)
    /\ RETRIEVAL_TOP_K = 5
    /\ argsort_stable \in BOOLEAN
    /\ last = Idle

\* what the caller of _process_query gets: the error raised, or the pair
\* (context_str, retrieval_metadata) of line 197
Answer(outcome, query_vec) ==
    [query     |-> outcome.query,
     query_vec |-> query_vec,
     raised    |-> outcome.raised,
     returned  |-> IF outcome.returned = None THEN None
                   ELSE Some([context  |-> outcome.returned[1].context,
                              evidence |-> outcome.returned[1].evidence])]

\* one call of _process_query whose outcome the caller keeps; the embedder is
\* deterministic: it returns for a query the vector it returned for it before
ProcessAnswered(user_question, query_vec) ==
    /\ last.op = "idle"
    /\ \A a \in answers : a.query = user_question => a.query_vec = query_vec
    /\ \E ok \in {process_query(user_question, query_vec)} :
           /\ last' = FaultOutcome(ok, user_question, 0)
           /\ answers' = answers \cup {Answer(FaultOutcome(ok, user_question, 0), query_vec)}
    /\ Cardinality(answers') <= MaxAnswers
    /\ UNCHANGED <<threads, session, spec_file, source_exists, chunks, vectors,
                   known_models, qa_items, qa_vectors, RETRIEVAL_TOP_K, argsort_stable>>

NextRepeat ==
    \/ /\ last.op = "idle"
       /\ \E q \in RepeatQueries, v \in DIRECTIONS : ProcessAnswered(q, v)
    \/ \E file \in SourceFiles : RewriteSource(file)
    \/ RemoveSource
    \/ Return

SpecRepeat == InitRepeat /\ [][NextRepeat]_vars

\* C23: with a deterministic embedder, two calls of _process_query with the
\* same query on the same loaded corpus and QA dataset return the same
\* context and the same evidence list, whatever happened between them.
C23_Deterministic ==
    \A a, b \in answers :
        a.query = b.query => (a.raised = b.raised /\ a.returned = b.returned)

-----------------------------------------------------------------------------
(* Searches with nothing to search in.  RAGSystem.__init__ reads the       *)
(* corpus file twice, for the chunks (line 67) and for the extractor's     *)
(* catalog (line 78): a file written between the two reads gives a catalog *)
(* with a product that has no chunk.                                       *)

EmptyQueries == { <<"b", "x", "h", " ", "c", "p", "u">>, <<"b", "y", "h", " ", "r", "a", "m">>, <<"c", "p", "u">> }

InitEmpty ==
    /\ spec_file \in SourceFiles
    /\ source_exists = TRUE
    /\ answers = {}
    /\ threads = <<>>
    /\ session = NoSession
    /\ chunks \in {chunk_data(<<BXH>>), chunk_data(<<BXH, BYH>>)}
    /\ vectors = List([i \in 1..Len(chunks) |-> 0])
    /\ known_models = ProductNameExtractor(get_products(spec_file))
    /\ qa_items \in {<<>>, <<QA_OVERALL>>}
    /\ qa_vectors = IF qa_items = <<>> THEN None ELSE Some(<<0>>)
    /\ RETRIEVAL_TOP_K = 5
    /\ argsort_stable \in BOOLEAN
    /\ last = Idle

EmptyCandidates ==
    {None, Some(<<>>), Some(chunks), Some(<<FullSpecsChunk(BZH)>>),
     Some(<<FullSpecsChunk(BZH), FullSpecsChunk(BZH)>>)}

NextEmpty ==
    \/ /\ last.op = "idle"
       /\ \E q \in EmptyQueries, v \in DIRECTIONS : Process(q, v)
    \/ /\ last.op = "idle"
       /\ \E q \in EmptyQueries, v \in DIRECTIONS, k \in 0..2, c \in EmptyCandidates :
              Search(q, v, k, c)
    \/ Return

SpecEmpty == InitEmpty /\ [][NextEmpty]_vars

\* C24: a search whose candidate list is empty, or holds no chunk of the
\* corpus, returns no chunk and no score; and a processed query in
\* SpecificProduct mode whose extracted product has no chunk returns a
\* context with no retrieval result and no chunk evidence, with the QA pairs
\* of its QA search.
C24_EmptyIsAResult ==
    /\ (/\ last.op = "search"
        /\ last.candidates # None
        /\ \A c \in Range(last.candidates[1]) : c \notin Range(chunks))
           => (last.out.results = <<>> /\ last.out.scores = <<>>)
    /\ (/\ last.op = "process"
        /\ last.mode = "SpecificProduct"
        /\ \A c \in Range(chunks) : c.metadata.product_id # last.extracted[1])
           => (/\ last.candidates = Some(<<>>)
               /\ last.chunk_results = <<>>
               /\ last.context.retrieval_results = <<>>
               /\ SelectSeq(last.evidence, LAMBDA e : e.type = "chunk") = <<>>
               /\ Len(last.context.qa_database) = Len(qa_items)
               /\ Len(last.evidence) = Len(qa_items))

\* a query for a product of the catalog that has no chunk in a corpus that is
\* not empty: the result holds the QA pair and nothing else
C24_Witness ==
    /\ last.op = "process"
    /\ last.mode = "SpecificProduct"
    /\ last.extracted = Some(BYH.product_id)
    /\ chunks = chunk_data(<<BXH>>)
    /\ last.context.retrieval_results = <<>>
    /\ Len(last.evidence) = 1
    /\ last.evidence[1].type = "qa"

-----------------------------------------------------------------------------
(* main() (src/main.py, lines 10-54): RAGSystem() inside a try, then the   *)
(* prompt loop.  session.input is what is left of standard input, a finite *)
(* sequence of lines; session.output is what main has printed, one word    *)
(* per print; session.asked is the lines it has passed to rag.query.       *)

MaxLines == 2

\* the corpus source: no file, a file that is not JSON, or a JSON object with
\* or without the key "products"; bad_entry says that an entry of "products"
\* is not an object
CorpusSource(kind, has_products, products, bad_entry) ==
    [kind |-> kind, has_products |-> has_products, products |-> products,
     bad_entry |-> bad_entry]

CorpusSources == {
    CorpusSource("missing", FALSE, <<>>, FALSE),
    CorpusSource("invalid_json", FALSE, <<>>, FALSE),
    CorpusSource("json", FALSE, <<>>, FALSE),
    CorpusSource("json", TRUE, <<BXH>>, TRUE),
    CorpusSource("json", TRUE, <<>>, FALSE),
    CorpusSource("json", TRUE, <<BXH>>, FALSE),
    CorpusSource("json", TRUE, <<BXH, BYH>>, FALSE) }

\* load_data (data_loader.py, lines 73-75) and chunk_data (line 120 on): open
\* raises FileNotFoundError, json.load raises JSONDecodeError, data["products"]
\* raises KeyError, product.get on an entry that is not an object raises
\* AttributeError
load_and_chunk(source) ==
    IF source.kind = "missing" THEN [raised |-> Some("FileNotFoundError"), chunks |-> <<>>]
    ELSE IF source.kind = "invalid_json" THEN [raised |-> Some("JSONDecodeError"), chunks |-> <<>>]
    ELSE IF ~source.has_products THEN [raised |-> Some("KeyError"), chunks |-> <<>>]
    ELSE IF source.bad_entry THEN [raised |-> Some("AttributeError"), chunks |-> <<>>]
    ELSE [raised |-> None, chunks |-> chunk_data(source.products)]

\* RAGSystem.__init__ (rag_engine.py, lines 55-78) with an embedder that gives
\* every text the same vector: the chunks, add_chunks, the QA retriever, the
\* extractor; the first error leaves the constructor
RAGSystem_init(source, qa_source) ==
    LET loaded  == load_and_chunk(source)
        indexed == add_chunks(<<>>, loaded.chunks,
                              List([i \in 1..Len(loaded.chunks) |-> 0]), 0)
        qa      == load_qa_dataset(qa_source,
                              List([i \in 1..Len(qa_source.qa_pairs) |-> 0]))
        raised  == IF loaded.raised # None THEN loaded.raised
                   ELSE IF indexed.raised # None THEN indexed.raised
                   ELSE qa.raised
    IN  [raised       |-> raised,
         chunks       |-> indexed.chunks,
         vectors      |-> indexed.vectors,
         qa_items     |-> qa.qa_items,
         qa_vectors   |-> qa.vectors,
         known_models |-> ProductNameExtractor(get_products(source.products))]

InputLines == { <<"Q", "U", "I", "T">>, <<"q">>, <<" ", " ">>, <<"c", "p", "u">>, <<"l", "i", "s", "t", " ", "p", "r", "o", "d", "u", "c", "t", "s">> }

InputStreams == SeqsUpTo(InputLines, MaxLines)

MainQASources == {QA_MISSING, QAJson(FALSE, <<>>), QAJson(TRUE, <<QAObject(QA_OVERALL)>>)}

\* what RAGSystem() gives for each corpus source and QA source
BuiltSystems ==
    {[source |-> source, qa_source |-> qa_source,
      sys |-> RAGSystem_init(source, qa_source)] :
        source \in CorpusSources, qa_source \in MainQASources}

InitMain ==
    /\ \E source \in CorpusSources :
        /\ session \in {[pc |-> "start", source |-> source, input |-> input, line |-> <<>>,
                         output |-> <<>>, asked |-> <<>>, rag |-> FALSE] :
                            input \in InputStreams}
        /\ spec_file = source.products
        /\ source_exists = (source.kind # "missing")
    /\ answers = {}
    /\ threads = <<>>
    /\ chunks = <<>>
    /\ vectors = <<>>
    /\ known_models = <<>>
    /\ qa_items = <<>>
    /\ qa_vectors = None
    /\ RETRIEVAL_TOP_K = 5
    /\ argsort_stable \in BOOLEAN
    /\ last = Idle

\* a main that goes on to the prompt when the constructor raised
ConstructAndGoOn(qa_source) ==
    /\ session.pc = "start"
    /\ \E sys \in {b.sys : b \in {c \in BuiltSystems :
                         c.source = session.source /\ c.qa_source = qa_source}} :
        IF sys.raised = None
        THEN /\ chunks' = sys.chunks
             /\ vectors' = sys.vectors
             /\ known_models' = sys.known_models
             /\ qa_items' = sys.qa_items
             /\ qa_vectors' = sys.qa_vectors
             /\ session' = [session EXCEPT !.pc = "prompt", !.rag = TRUE,
                                !.output = <<"Initialize", "Ready">>]
        ELSE /\ session' = [session EXCEPT !.pc = "prompt",
                                !.output = <<"Initialize", "Initialization Failed">>]
             /\ UNCHANGED <<chunks, vectors, known_models, qa_items, qa_vectors>>
    /\ UNCHANGED <<answers, threads, spec_file, source_exists, RETRIEVAL_TOP_K,
                   argsort_stable, last>>

\* lines 27-33: the banner, the constructor in a try, and on any Exception the
\* report and the return
Construct(qa_source) ==
    /\ session.pc = "start"
    /\ \E sys \in {b.sys : b \in {c \in BuiltSystems :
                         c.source = session.source /\ c.qa_source = qa_source}} :
        IF sys.raised = None
        THEN /\ chunks' = sys.chunks
             /\ vectors' = sys.vectors
             /\ known_models' = sys.known_models
             /\ qa_items' = sys.qa_items
             /\ qa_vectors' = sys.qa_vectors
             /\ session' = [session EXCEPT !.pc = "prompt", !.rag = TRUE,
                                !.output = <<"Initialize", "Ready">>]
        ELSE /\ session' = [session EXCEPT !.pc = "done",
                                !.output = <<"Initialize", "Initialization Failed">>]
             /\ UNCHANGED <<chunks, vectors, known_models, qa_items, qa_vectors>>
    /\ UNCHANGED <<answers, threads, spec_file, source_exists, RETRIEVAL_TOP_K,
                   argsort_stable, last>>

\* not user_input.strip()
IsBlank(s) == \A i \in 1..Len(s) : s[i] \in WHITESPACE

EXIT_WORDS == { <<"e", "x", "i", "t">>, <<"q", "u", "i", "t">>, <<"q">> }

\* lines 37-44: input() returns a line; an exit word leaves the loop, a blank
\* line goes back to the prompt, any other line is printed "Assistant: " for
ReadLine ==
    /\ session.pc = "prompt"
    /\ session.input # <<>>
    /\ LET user_input == Head(session.input)
       IN  session' =
            IF lower(user_input) \in EXIT_WORDS
            THEN [session EXCEPT !.pc = "done", !.input = Tail(@), !.line = user_input]
            ELSE IF IsBlank(user_input)
            THEN [session EXCEPT !.input = Tail(@), !.line = user_input]
            ELSE [session EXCEPT !.pc = "answering", !.input = Tail(@),
                       !.line = user_input, !.output = Append(@, "Assistant")]
    /\ UNCHANGED <<answers, threads, spec_file, source_exists, chunks, vectors,
                   known_models, qa_items, qa_vectors, RETRIEVAL_TOP_K, argsort_stable, last>>

\* lines 37 and 52-53: at the end of the input, input() raises EOFError, an
\* Exception: the error is printed and the loop goes on (a run of such errors
\* is written once in session.output)
ReadEOF ==
    /\ session.pc = "prompt"
    /\ session.input = <<>>
    /\ session' = [session EXCEPT !.output =
                       IF @[Len(@)] = "Error: EOF" THEN @ ELSE Append(@, "Error: EOF")]
    /\ UNCHANGED <<answers, threads, spec_file, source_exists, chunks, vectors,
                   known_models, qa_items, qa_vectors, RETRIEVAL_TOP_K, argsort_stable, last>>

\* lines 45-47 and 52-53: rag.query(user_input) and the printing of its
\* tokens; the embedder or the generator may raise, and the ProductList
\* branch raises when the corpus file is gone: an Exception is printed and
\* the loop goes on
AnswerQuery(raises) ==
    /\ session.pc = "answering"
    /\ (~source_exists /\ is_product_list_query(session.line)
            /\ ~is_comparison_query(session.line)
            /\ extract(known_models, session.line) = None) => raises
    /\ last' = [op |-> "query", query |-> session.line, raised |-> raises]
    /\ session' = [session EXCEPT
                      !.pc = "prompt",
                      !.asked = Append(@, session.line),
                      !.output = Append(@, IF raises THEN "Error" ELSE "Answer")]
    /\ UNCHANGED <<answers, threads, spec_file, source_exists, chunks, vectors,
                   known_models, qa_items, qa_vectors, RETRIEVAL_TOP_K, argsort_stable>>

\* lines 49-51: Ctrl-C in the loop
Interrupt ==
    /\ session.pc \in {"prompt", "answering"}
    /\ session' = [session EXCEPT !.pc = "done", !.output = Append(@, "Exiting")]
    /\ UNCHANGED <<answers, threads, spec_file, source_exists, chunks, vectors,
                   known_models, qa_items, qa_vectors, RETRIEVAL_TOP_K, argsort_stable, last>>

\* the steps main takes by itself
MainStep ==
    \/ \E qa_source \in MainQASources : Construct(qa_source)
    \/ ReadLine
    \/ ReadEOF
    \/ \E raises \in BOOLEAN : AnswerQuery(raises)

NextMain == MainStep \/ Interrupt

SpecMain == InitMain /\ [][NextMain]_vars

\* main is not stopped while it can take a step
SpecMainFair == SpecMain /\ WF_vars(MainStep)

\* the corpus file is missing, is not JSON, has no "products", or has an
\* entry of "products" that is not an object
Unloadable(source) ==
    source.kind # "json" \/ ~source.has_products \/ source.bad_entry

\* C25: when the corpus file is missing or malformed, RAGSystem() raises and
\* no system is produced: main prints the initialization failure and returns;
\* it never reaches the prompt, reads no line and issues no query.
C25_LoadFailureFatal ==
    (session.pc # "start" /\ Unloadable(session.source)) =>
        /\ session.pc = "done"
        /\ ~session.rag
        /\ session.output = <<"Initialize", "Initialization Failed">>
        /\ session.asked = <<>>
        /\ session.line = <<>>
        /\ chunks = <<>> /\ vectors = <<>> /\ known_models = <<>>
        /\ last = Idle

\* main has returned after a corpus file without "products", with a question
\* waiting in the input
C25_Witness ==
    /\ session.pc = "done"
    /\ session.source = CorpusSource("json", FALSE, <<>>, FALSE)
    /\ session.input # <<>>
    /\ session.input[1] = <<"c", "p", "u">>
    /\ session.output[2] = "Initialization Failed"

\* what the loop never does: pass an exit word or a blank line to rag.query,
\* or stop because answering a question failed
LoopSafe ==
    /\ \A i \in 1..Len(session.asked) :
           lower(session.asked[i]) \notin EXIT_WORDS /\ ~IsBlank(session.asked[i])
    /\ (/\ session.pc = "done"
        /\ session.output # <<>>
        /\ session.output[Len(session.output)] = "Error")
           => lower(session.line) \in EXIT_WORDS

\* C30: on every finite input main eventually returns: at the first exit word
\* (in any case), for which no query is issued, or when the input is
\* exhausted; a blank line issues no query and a failed answer does not end
\* the session.
C30_LoopTerminates == <>(session.pc = "done") /\ []LoopSafe
-----------------------------------------------------------------------------
(* The product-list keywords, each as a whole query (query_analyzer.py,    *)
(* lines 54-57), over the engines of Init.                                 *)

KeywordQueries == Range(PRODUCT_LIST_KEYWORDS)

NextKeywords ==
    \/ /\ last.op = "idle"
       /\ \E q \in KeywordQueries, v \in DIRECTIONS : Process(q, v)
    \/ Return

SpecKeywords == Init /\ [][NextKeywords]_vars

\* C29: a query that is one product-list keyword and nothing else, from which
\* no product is extracted, is handled in ProductList mode and gets the fact
\* string that lists the product names of the catalog.
C29_EveryKeywordRoutes ==
    (Processed /\ last.query \in KeywordQueries /\ last.extracted = None) =>
        /\ last.mode = "ProductList"
        /\ last.context.verified_facts = <<ProductListFact(get_products(spec_file))>>
-----------------------------------------------------------------------------
(* Several callers in _process_query at once, on one RAGSystem after its   *)
(* construction.  A call reads the engine in three places: the catalog of  *)
(* the extractor (rag_engine.py, line 100), the chunk index and, in        *)
(* ProductList mode, the corpus file (lines 107-134), and the QA index     *)
(* (lines 168-173); everything else is local to the call.  Steps of        *)
(* different calls interleave in any order.  The embedder is an external   *)
(* collaborator: the vector it gives a call is an input of the call.       *)

MaxCallers == 2

Callers == 1..MaxCallers

ConcurrentQueries == { <<"b", "x", "h", " ", "c", "p", "u", " ", "i", "9", " ", "a", " ", "c">>, <<"l", "i", "s", "t", " ", "p", "r", "o", "d", "u", "c", "t", "s">> }

\* a caller that is not in a call
Waiting == [pc |-> "idle"]

InitConcurrent ==
    /\ spec_file = <<BXH, BYH>>
    /\ source_exists = TRUE
    /\ answers = {}
    /\ session = NoSession
    /\ chunks = chunk_data(spec_file)
    /\ vectors \in Embeddings(List([i \in 1..Len(chunks) |-> chunks[i].content]))
    /\ known_models = ProductNameExtractor(get_products(spec_file))
    /\ qa_items \in {q \in QAFiles : Len(q) = 2}
    /\ qa_vectors = Some(<<0, 1>>)
    /\ RETRIEVAL_TOP_K = 3
    /\ argsort_stable \in BOOLEAN
    /\ last = Idle
    /\ threads = [t \in Callers |-> Waiting]

\* caller t enters _process_query; alone is what the call returns when no
\* step of another call comes between its own
Call(t, user_question, query_vec) ==
    /\ threads[t].pc = "idle"
    /\ threads' = [threads EXCEPT ![t] =
                      [pc        |-> "called",
                       query     |-> user_question,
                       query_vec |-> query_vec,
                       alone     |-> process_query(user_question, query_vec)]]
    /\ UNCHANGED <<answers, session, spec_file, source_exists, chunks, vectors, known_models,
                   qa_items, qa_vectors, RETRIEVAL_TOP_K, argsort_stable, last>>

\* line 100: the product id, from the catalog of the extractor; the keyword
\* tests of the router (lines 109 and 120) read the query alone
Analyze(t) ==
    /\ threads[t].pc = "called"
    /\ threads' = [threads EXCEPT ![t] =
                      [pc            |-> "analyzed",
                       query         |-> threads[t].query,
                       query_vec     |-> threads[t].query_vec,
                       alone         |-> threads[t].alone,
                       extracted     |-> extract(known_models, threads[t].query),
                       is_comparison |-> is_comparison_query(threads[t].query),
                       is_product_list |-> is_product_list_query(threads[t].query)]]
    /\ UNCHANGED <<answers, session, spec_file, source_exists, chunks, vectors, known_models,
                   qa_items, qa_vectors, RETRIEVAL_TOP_K, argsort_stable, last>>

\* lines 107-134: the candidates of the mode
ModeCandidates(mode, extracted_product_id) ==
    IF mode = "Comparison" THEN None
    ELSE IF mode = "SpecificProduct" THEN Some(ProductChunks(extracted_product_id[1]))
    ELSE Some(chunks)

\* lines 120-127: the fact of ProductList mode
ModeFacts(mode) ==
    IF mode = "ProductList" THEN <<ProductListFact(get_products(spec_file))>> ELSE <<>>

\* a chunk step whose search keeps its target list in the index: self.chunks
\* is the candidate list from then on
SearchChunksNarrowing(t) ==
    /\ threads[t].pc = "analyzed"
    /\ \E mode \in {Route(threads[t].is_comparison, threads[t].extracted,
                          threads[t].is_product_list)} :
         /\ threads' = [threads EXCEPT ![t] =
                           [pc            |-> "ranked",
                            query         |-> threads[t].query,
                            query_vec     |-> threads[t].query_vec,
                            alone         |-> threads[t].alone,
                            extracted     |-> threads[t].extracted,
                            is_comparison |-> threads[t].is_comparison,
                            mode          |-> mode,
                            candidates    |-> ModeCandidates(mode, threads[t].extracted),
                            facts         |-> ModeFacts(mode),
                            ranked        |->
                                IF mode = "Comparison" THEN ComparisonResults
                                ELSE search(threads[t].query, threads[t].query_vec, RETRIEVAL_TOP_K,
                                            ModeCandidates(mode, threads[t].extracted))]]
         /\ chunks' = IF mode = "Comparison" THEN chunks
                      ELSE ModeCandidates(mode, threads[t].extracted)[1]
    /\ UNCHANGED <<answers, session, spec_file, source_exists, vectors, known_models,
                   qa_items, qa_vectors, RETRIEVAL_TOP_K, argsort_stable, last>>

\* lines 107-134: the router and the chunk search of the mode
SearchChunks(t) ==
    /\ threads[t].pc = "analyzed"
    /\ \E mode \in {Route(threads[t].is_comparison, threads[t].extracted,
                          threads[t].is_product_list)} :
         threads' = [threads EXCEPT ![t] =
                        [pc            |-> "ranked",
                         query         |-> threads[t].query,
                         query_vec     |-> threads[t].query_vec,
                         alone         |-> threads[t].alone,
                         extracted     |-> threads[t].extracted,
                         is_comparison |-> threads[t].is_comparison,
                         mode          |-> mode,
                         candidates    |-> ModeCandidates(mode, threads[t].extracted),
                         facts         |-> ModeFacts(mode),
                         ranked        |->
                             IF mode = "Comparison" THEN ComparisonResults
                             ELSE search(threads[t].query, threads[t].query_vec, RETRIEVAL_TOP_K,
                                         ModeCandidates(mode, threads[t].extracted))]]
    /\ UNCHANGED <<answers, session, spec_file, source_exists, chunks, vectors, known_models,
                   qa_items, qa_vectors, RETRIEVAL_TOP_K, argsort_stable, last>>

\* lines 137-197: the Full Specs policy, the QA search, the context and the
\* evidence
SearchQA(t) ==
    /\ threads[t].pc = "ranked"
    /\ threads' = [threads EXCEPT ![t] =
                      [pc        |-> "done",
                       query     |-> threads[t].query,
                       query_vec |-> threads[t].query_vec,
                       alone     |-> threads[t].alone,
                       result    |->
                           build_context(threads[t].query, threads[t].query_vec,
                               threads[t].extracted, threads[t].is_comparison, threads[t].mode,
                               threads[t].candidates, threads[t].facts, threads[t].ranked,
                               qa_search(threads[t].query_vec,
                                         Some(QAProductSuffix(threads[t].extracted)), 1))]]
    /\ UNCHANGED <<answers, session, spec_file, source_exists, chunks, vectors, known_models,
                   qa_items, qa_vectors, RETRIEVAL_TOP_K, argsort_stable, last>>

\* the call of caller t returns
Finish(t) ==
    /\ threads[t].pc = "done"
    /\ threads' = [threads EXCEPT ![t] = Waiting]
    /\ UNCHANGED <<answers, session, spec_file, source_exists, chunks, vectors, known_models,
                   qa_items, qa_vectors, RETRIEVAL_TOP_K, argsort_stable, last>>

NextConcurrent ==
    \E t \in Callers :
        \/ /\ threads[t].pc = "idle"
           /\ \E q \in ConcurrentQueries : Call(t, q, 0)
        \/ Analyze(t)
        \/ SearchChunks(t)
        \/ SearchQA(t)
        \/ Finish(t)

SpecConcurrent == InitConcurrent /\ [][NextConcurrent]_vars

\* C26: in every interleaving of the steps of concurrent calls, a call that
\* has finished has the context and the evidence it returns when it runs
\* alone: no step of a call changes what another call reads.
C26_NoInterference ==
    \A t \in Callers :
        threads[t].pc = "done" =>
            /\ threads[t].result.context = threads[t].alone.context
            /\ threads[t].result.evidence = threads[t].alone.evidence

\* a product call has finished with chunks of its product while a
\* product-list call is in progress: it has read the corpus file and made its
\* chunk search over the whole corpus, and not yet its QA search
C26_Witness ==
    /\ threads[1].pc = "done"
    /\ threads[1].result.mode = "SpecificProduct"
    /\ threads[1].result.chunk_results # <<>>
    /\ threads[2].pc = "ranked"
    /\ threads[2].mode = "ProductList"
    /\ threads[2].facts # <<>>
    /\ Len(threads[2].ranked.results) = 3
====
